---- MODULE Spec2Model ----
(***************************************************************************)
(* State-machine model of the wrestling-promotion simulation engine:       *)
(* the Championship Ledger (ChampionshipTracker), the PPV Booker           *)
(* (PPVEngine), the Match Simulator (MatchEngine) and the Storyline        *)
(* Director (StorylineEngine), with the control-surface routes that        *)
(* mutate their state.                                                     *)
(*                                                                         *)
(* Conventions.  JavaScript null is the string Null where the field holds  *)
(* strings, NoTime where it holds a timestamp and NoEvent where it holds   *)
(* an object reference.  Date.now() reads the variable now, which the      *)
(* action Tick advances independently of the operations.  Every operation  *)
(* records its call and its return value in ret and counts itself in       *)
(* steps, so that a step of an operation can be told from its effect.      *)
(***************************************************************************)
EXTENDS Integers, Sequences, FiniteSets, TLC

VARIABLES
    now,                \* the wall clock read by Date.now()
    steps,              \* number of operations called so far
    ret,                \* the last call and what it returned
    titles,             \* ChampionshipTracker.titles
    events,             \* the PPV event objects ever created (the heap)
    scheduledEvents,    \* PPVEngine.scheduledEvents (references into events)
    completedEvents,    \* PPVEngine.completedEvents (copies)
    activeEvent,        \* PPVEngine.activeEvent (reference or NoEvent)
    storyline,          \* the StorylineEngine object (its fields, by name)
    stateFile,          \* the snapshot last written to STATE_FILE
    activeMatch,        \* MatchEngine.activeMatch
    matchHistory,       \* MatchEngine.matchHistory
    fullMatch,          \* the running simulateFullMatch call and its rounds
    rng,                \* the readings Math.random() gives the simulator next
    runs,               \* the runPPV calls in flight, by the event each was given
    chat,               \* the messageCreate handlers in flight and what they did
    spawner,            \* the spawn controller: its state object, token pool and requests
    topics              \* the ConversationStarter object

ledgerVars == <<titles>>
ppvVars == <<events, scheduledEvents, completedEvents, activeEvent, runs>>
directorVars == <<storyline, stateFile, chat>>
matchVars == <<activeMatch, matchHistory, fullMatch, rng>>
controllerVars == <<spawner, topics>>
vars == <<now, steps, ret, titles, events, scheduledEvents, completedEvents, activeEvent,
          storyline, stateFile, activeMatch, matchHistory, fullMatch, rng, runs, chat, spawner, topics>>

Null == "null"
NoTime == -1
NoEvent == 0

\* ------------------------------------------------------------------ bounds
MaxClock == 1
MaxLedgerOps == 4
MaxDefenses == 2
MaxPPVOps == 6
MaxEvents == 2
MaxCard == 2
MaxDirectorOps == 2
MaxMatchOps == 1
MaxRoundOps == 2
StreamLen == 3
MaxMessages == 1
MaxSpawnOps == 4
MaxTopicOps == 9

\* ----------------------------------------------------------------- helpers
Last(s) == s[Len(s)]

\* Array.prototype.slice(-n)
SliceLast(s, n) == IF Len(s) > n THEN SubSeq(s, Len(s) - n + 1, Len(s)) ELSE s

Range(s) == {s[i] : i \in 1..Len(s)}

NoRet == [op |-> "none"]

Tick ==
    /\ now < MaxClock
    /\ now' = now + 1
    /\ UNCHANGED <<steps, ret, ledgerVars, ppvVars, directorVars, matchVars, controllerVars>>

\* ===================================================== Championship Ledger
CHAMPIONSHIPS == {"wwe-championship", "intercontinental", "tag-team", "hardcore"}

HistoryCap == 20

\* constructor: every catalog title vacant
NewTitles == [id \in CHAMPIONSHIPS |->
                [holder |-> Null, wonAt |-> NoTime, defenses |-> 0, history |-> <<>>]]

\* the reign closed into history by awardTitle (no vacated field: falsy)
ClosedReign(title, t) ==
    [holder |-> title.holder, wonAt |-> title.wonAt, lostAt |-> t,
     defenses |-> title.defenses, vacated |-> FALSE]

\* the reign closed into history by vacateTitle
VacatedReign(title, t) ==
    [holder |-> title.holder, wonAt |-> title.wonAt, lostAt |-> t,
     defenses |-> title.defenses, vacated |-> TRUE]

\* awardTitle with the new holder installed before the reign is closed
awardTitle_InstallFirst(ts, titleId, characterId, t) ==
    LET title == ts[titleId]
        installed == [title EXCEPT !.holder = characterId, !.wonAt = t, !.defenses = 0]
        pushed == IF title.holder # Null
                  THEN Append(title.history, ClosedReign(installed, t))
                  ELSE title.history
    IN [ts EXCEPT ![titleId] =
           [installed EXCEPT !.history = SliceLast(pushed, HistoryCap)]]

\* awardTitle's effect on this.titles, for a known title
awardTitle(ts, titleId, characterId, t) ==
    LET title == ts[titleId]
        pushed == IF title.holder # Null
                  THEN Append(title.history, ClosedReign(title, t))
                  ELSE title.history
    IN [ts EXCEPT ![titleId] =
           [holder |-> characterId, wonAt |-> t, defenses |-> 0,
            history |-> SliceLast(pushed, HistoryCap)]]

\* vacateTitle closing the reign without the vacated flag
vacateTitle_Unflagged(ts, titleId, t) ==
    LET title == ts[titleId]
        pushed == IF title.holder # Null
                  THEN Append(title.history, ClosedReign(title, t))
                  ELSE title.history
    IN [ts EXCEPT ![titleId] =
           [holder |-> Null, wonAt |-> NoTime, defenses |-> 0, history |-> pushed]]

\* vacateTitle's effect on this.titles, for a known title
vacateTitle(ts, titleId, t) ==
    LET title == ts[titleId]
        pushed == IF title.holder # Null
                  THEN Append(title.history, VacatedReign(title, t))
                  ELSE title.history
    IN [ts EXCEPT ![titleId] =
           [holder |-> Null, wonAt |-> NoTime, defenses |-> 0, history |-> pushed]]

\* recordDefense without the guard on the holder
recordDefense_Unguarded(ts, titleId) ==
    [ts EXCEPT ![titleId].defenses = @ + 1]

\* recordDefense's effect on this.titles, for a known title
recordDefense(ts, titleId) ==
    IF ts[titleId].holder = Null THEN ts
    ELSE [ts EXCEPT ![titleId].defenses = @ + 1]

\* getTitlesForCharacter that also counts the title's last former holder
getTitlesForCharacter_WithFormer(ts, characterId) ==
    {id \in CHAMPIONSHIPS :
        \/ ts[id].holder = characterId
        \/ Len(ts[id].history) > 0 /\ Last(ts[id].history).holder = characterId}

\* the ids of the titles getTitlesForCharacter returns
getTitlesForCharacter(ts, characterId) ==
    {id \in CHAMPIONSHIPS : ts[id].holder = characterId}

\* inputs of the ledger operations
TitleInputs == {"wwe-championship", "intercontinental", "cruiserweight"}
HolderInputs == {"john-cena", "the-rock"}

AwardTitle(titleId, characterId) ==
    /\ steps < MaxLedgerOps
    /\ steps' = steps + 1
    /\ IF titleId \notin CHAMPIONSHIPS
       THEN /\ titles' = titles
            /\ ret' = [op |-> "awardTitle", titleId |-> titleId, isNull |-> TRUE,
                       newChampion |-> Null, previousChampion |-> Null]
       ELSE /\ titles' = awardTitle(titles, titleId, characterId, now)
            /\ ret' = [op |-> "awardTitle", titleId |-> titleId, isNull |-> FALSE,
                       newChampion |-> characterId,
                       previousChampion |-> titles[titleId].holder]
    /\ UNCHANGED <<now, ppvVars, directorVars, matchVars, controllerVars>>

VacateTitle(titleId) ==
    /\ steps < MaxLedgerOps
    /\ steps' = steps + 1
    /\ titles' = IF titleId \in CHAMPIONSHIPS THEN vacateTitle(titles, titleId, now)
                 ELSE titles
    /\ ret' = [op |-> "vacateTitle", titleId |-> titleId]
    /\ UNCHANGED <<now, ppvVars, directorVars, matchVars, controllerVars>>

RecordDefense(titleId) ==
    /\ steps < MaxLedgerOps
    /\ steps' = steps + 1
    /\ titleId \in CHAMPIONSHIPS => titles[titleId].defenses < MaxDefenses
    /\ titles' = IF titleId \in CHAMPIONSHIPS THEN recordDefense(titles, titleId)
                 ELSE titles
    /\ ret' = [op |-> "recordDefense", titleId |-> titleId]
    /\ UNCHANGED <<now, ppvVars, directorVars, matchVars, controllerVars>>

\* ====================================================== Character Registry
CHARACTERS == {"john-cena", "the-rock", "stone-cold"}

\* getCharacter(id) is truthy
getCharacter(id) == id \in CHARACTERS

\* probabilities are held in thousandths
responseChance(id) == IF id = "stone-cold" THEN 500 ELSE 700
feudResponseChance(id) == IF id = "stone-cold" THEN 900 ELSE 1000

getFeudPartners(id) ==
    CASE id = "john-cena" -> {"the-rock"}
      [] id = "the-rock" -> {"john-cena"}
      [] id = "stone-cold" -> {"the-rock", "john-cena"}
      [] OTHER -> {}

\* ====================================================== Storyline Director
\* feud intensity is held in tenths: 7 is 70, the +0.3 of an escalation is 3
IntensityCap == 100
DefaultIntensity == 50
HeatWindow == 1          \* the 30 minutes of the heat window, in clock readings

FEUD_BEATS == <<[type |-> "trash-talk", weight |-> 35], [type |-> "challenge", weight |-> 15],
                [type |-> "alliance-tease", weight |-> 10], [type |-> "backstory", weight |-> 15],
                [type |-> "escalation", weight |-> 15], [type |-> "mind-games", weight |-> 10]>>
SURPRISE_BEATS == <<[type |-> "entrance", weight |-> 30], [type |-> "interruption", weight |-> 30],
                    [type |-> "save", weight |-> 15], [type |-> "betrayal", weight |-> 10],
                    [type |-> "return", weight |-> 10], [type |-> "run-in", weight |-> 5]>>

\* `surprise-${surpriseType.type}`
SurpriseReason(type) ==
    CASE type = "entrance" -> "surprise-entrance"
      [] type = "interruption" -> "surprise-interruption"
      [] type = "save" -> "surprise-save"
      [] type = "betrayal" -> "surprise-betrayal"
      [] type = "return" -> "surprise-return"
      [] type = "run-in" -> "surprise-run-in"

\* every id that is ever handed to the director
RosterIds == CHARACTERS \cup {"undertaker", "macho-man", "triple-h", "mankind", "hulk-hogan"}

Min(a, b) == IF a <= b THEN a ELSE b
Max(a, b) == IF a >= b THEN a ELSE b
Includes(s, x) == \E i \in 1..Len(s) : s[i] = x
Without(s, x) == SelectSeq(s, LAMBDA c : c # x)

\* constructor
NewStoryline ==
    [feuds |-> <<[between |-> <<"john-cena", "the-rock">>, intensity |-> 70, phase |-> "building"],
                 [between |-> <<"stone-cold", "triple-h">>, intensity |-> 60, phase |-> "building"],
                 [between |-> <<"undertaker", "mankind">>, intensity |-> 50, phase |-> "simmering"]>>,
     storylineHistory |-> <<>>,
     beatsSinceLastSurprise |-> 0,
     activeCharacters |-> <<"john-cena", "the-rock">>,
     waitingInTheWings |-> <<"stone-cold", "undertaker", "macho-man", "triple-h", "mankind">>,
     messageCount |-> 0,
     heatMap |-> [c \in RosterIds |-> <<>>]]

NoFile == [exists |-> FALSE]

\* the object saveState serializes
Snapshot(s) ==
    [exists |-> TRUE, feuds |-> s.feuds, activeCharacters |-> s.activeCharacters,
     waitingInTheWings |-> s.waitingInTheWings, messageCount |-> s.messageCount,
     beatsSinceLastSurprise |-> s.beatsSinceLastSurprise, heatMap |-> s.heatMap,
     storylineHistory |-> SliceLast(s.storylineHistory, 100)]

\* saveState, with the write to STATE_FILE landing
SaveState(s) == stateFile' = Snapshot(s)

\* loadState that takes an empty saved list for a missing one
loadState_NonEmptyOnly(file) ==
    IF ~file.exists THEN NewStoryline
    ELSE [NewStoryline EXCEPT
            !.feuds = IF Len(file.feuds) > 0 THEN file.feuds ELSE @,
            !.activeCharacters = IF Len(file.activeCharacters) > 0
                                 THEN file.activeCharacters ELSE @,
            !.waitingInTheWings = IF Len(file.waitingInTheWings) > 0
                                  THEN file.waitingInTheWings ELSE @,
            !.messageCount = IF file.messageCount # 0 THEN file.messageCount ELSE @,
            !.beatsSinceLastSurprise = IF file.beatsSinceLastSurprise # 0
                                       THEN file.beatsSinceLastSurprise ELSE @,
            !.heatMap = file.heatMap,
            !.storylineHistory = SliceLast(file.storylineHistory, 100)]

\* loadState on a newly constructed engine: a saved field replaces the
\* constructor's value when it is truthy, which every array and object is
\* and a number is unless it is 0
loadState(file) ==
    IF ~file.exists THEN NewStoryline
    ELSE [NewStoryline EXCEPT
            !.feuds = file.feuds,
            !.activeCharacters = file.activeCharacters,
            !.waitingInTheWings = file.waitingInTheWings,
            !.messageCount = IF file.messageCount # 0 THEN file.messageCount ELSE @,
            !.beatsSinceLastSurprise = IF file.beatsSinceLastSurprise # 0
                                       THEN file.beatsSinceLastSurprise ELSE @,
            !.heatMap = file.heatMap,
            !.storylineHistory = SliceLast(file.storylineHistory, 100)]

RECURSIVE weightedPick(_, _, _)
weightedPick(items, i, random) ==
    IF i > Len(items) THEN items[Len(items)]
    ELSE IF random - items[i].weight <= 0 THEN items[i]
    ELSE weightedPick(items, i + 1, random - items[i].weight)

\* weightedRandom, for the value random = Math.random() * totalWeight
weightedRandom(items, random) == weightedPick(items, 1, random)

updateHeat(s, charId, t) ==
    [s EXCEPT !.heatMap[charId] = SelectSeq(Append(@, t), LAMBDA u : u > t - HeatWindow)]

\* getHeat's purge of the stale entries
purgeHeat(s, charId, t) ==
    [s EXCEPT !.heatMap[charId] = SelectSeq(@, LAMBDA u : u > t - HeatWindow)]

getHeat(s, charId, t) == Len(purgeHeat(s, charId, t).heatMap[charId])

\* index of the first feud whose pair includes both ids, 0 when there is none
FindFeud(feuds, a, b) ==
    LET hits == {i \in 1..Len(feuds) :
                    Includes(feuds[i].between, a) /\ Includes(feuds[i].between, b)}
    IN IF hits = {} THEN 0 ELSE CHOOSE i \in hits : \A j \in hits : i <= j

generateFeudContext(s, charId, opponentId, random) ==
    LET beat == weightedRandom(FEUD_BEATS, random)
        i == FindFeud(s.feuds, charId, opponentId)
        intensity == IF i # 0 /\ s.feuds[i].intensity # 0 THEN s.feuds[i].intensity
                     ELSE DefaultIntensity
        feuds2 == IF i # 0 /\ intensity < IntensityCap
                  THEN [s.feuds EXCEPT ![i].intensity = Min(IntensityCap, intensity + 3)]
                  ELSE s.feuds
    IN [s EXCEPT !.feuds = feuds2,
                 !.storylineHistory = Append(@, [beat |-> beat.type,
                                                 characters |-> <<charId, opponentId>>,
                                                 intensity |-> intensity])]

\* the chance of decideResponders for one character, in thousandths
responseChanceFor(s, charId, author, mentions, t) ==
    LET isFeudRelated == author # Null /\ author \in getFeudPartners(charId)
        base == IF isFeudRelated THEN feudResponseChance(charId) ELSE responseChance(charId)
        boosted == IF charId \in mentions THEN Min(1000, base + 300) ELSE base
        heat == getHeat(s, charId, t)
        cooled == IF heat > 5 THEN (boosted * 7) \div 10 ELSE boosted
    IN IF heat > 10 THEN (cooled * 5) \div 10 ELSE cooled

\* the loop of decideResponders over the active characters from position i on:
\* R are the characters whose draw Math.random() < chance succeeds, draws the
\* value of the weighted draw of each feud response
RECURSIVE respondLoop(_, _, _, _, _, _, _, _)
respondLoop(acc, chars, i, author, mentions, R, draws, t) ==
    IF i > Len(chars) THEN acc
    ELSE LET charId == chars[i]
         IN IF charId = author \/ ~getCharacter(charId)
            THEN respondLoop(acc, chars, i + 1, author, mentions, R, draws, t)
            ELSE LET s == acc.s
                     isFeudRelated == author # Null /\ author \in getFeudPartners(charId)
                     chance == responseChanceFor(s, charId, author, mentions, t)
                     purged == purgeHeat(s, charId, t)
                     responds == charId \in R
                     possible == IF responds THEN chance > 0 ELSE chance < 1000
                     told == IF isFeudRelated
                             THEN generateFeudContext(purged, charId, author, draws[charId])
                             ELSE purged
                     next == IF responds
                             THEN [s |-> updateHeat(told, charId, t),
                                   responders |-> Append(acc.responders,
                                       [characterId |-> charId,
                                        reason |-> IF isFeudRelated THEN "feud-response"
                                                   ELSE "general-response",
                                        isSurprise |-> FALSE]),
                                   possible |-> acc.possible /\ possible]
                             ELSE [s |-> purged, responders |-> acc.responders,
                                   possible |-> acc.possible /\ possible]
                 IN respondLoop(next, chars, i + 1, author, mentions, R, draws, t)

\* a surprise chance that does not wait for the eighth beat
surpriseChance_AnyBeat(s) ==
    IF Len(s.waitingInTheWings) = 0 THEN 0
    ELSE Min(350, Max(25, (s.beatsSinceLastSurprise - 8) * 25))

\* the chance of shouldTriggerSurprise, in thousandths
surpriseChance(s) ==
    IF Len(s.waitingInTheWings) = 0 \/ s.beatsSinceLastSurprise < 8 THEN 0
    ELSE Min(350, (s.beatsSinceLastSurprise - 8) * 25)

\* triggerSurprise, for the drawn wings position pick and the weighted draw random
triggerSurprise(s, pick, random) ==
    IF Len(s.waitingInTheWings) = 0 \/ ~getCharacter(s.waitingInTheWings[pick])
    THEN [s |-> s, fired |-> FALSE, characterId |-> Null, reason |-> Null]
    ELSE LET charId == s.waitingInTheWings[pick]
             surpriseType == weightedRandom(SURPRISE_BEATS, random)
         IN [s |-> [s EXCEPT !.waitingInTheWings = Without(@, charId),
                             !.activeCharacters = Append(@, charId),
                             !.beatsSinceLastSurprise = 0,
                             !.storylineHistory = Append(@, [beat |-> SurpriseReason(surpriseType.type),
                                                             characters |-> <<charId>>])],
             fired |-> TRUE, characterId |-> charId,
             reason |-> SurpriseReason(surpriseType.type)]

\* createFeud with the pair looked up in the order given
createFeud_Ordered(s, char1, char2, intensity) ==
    LET hits == {i \in 1..Len(s.feuds) : s.feuds[i].between = <<char1, char2>>}
    IN IF hits # {}
       THEN [s EXCEPT !.feuds[CHOOSE i \in hits : TRUE] =
                [@ EXCEPT !.intensity = intensity, !.phase = "building"]]
       ELSE [s EXCEPT !.feuds = Append(@, [between |-> <<char1, char2>>,
                                           intensity |-> intensity, phase |-> "building"])]

createFeud(s, char1, char2, intensity) ==
    LET i == FindFeud(s.feuds, char1, char2)
    IN IF i # 0
       THEN [s EXCEPT !.feuds[i] = [@ EXCEPT !.intensity = intensity, !.phase = "building"]]
       ELSE [s EXCEPT !.feuds = Append(@, [between |-> <<char1, char2>>,
                                           intensity |-> intensity, phase |-> "building"])]

addCharacterToWings(s, characterId) ==
    IF ~Includes(s.waitingInTheWings, characterId) /\ ~Includes(s.activeCharacters, characterId)
    THEN [s EXCEPT !.waitingInTheWings = Append(@, characterId)]
    ELSE s

deactivateCharacter(s, characterId) ==
    [s EXCEPT !.activeCharacters = Without(@, characterId),
              !.waitingInTheWings = Without(@, characterId)]

\* the body of POST /characters of the full director
toggleCharacter(s, id, active) ==
    IF active
    THEN IF ~Includes(s.activeCharacters, id)
         THEN [s EXCEPT !.activeCharacters = Append(@, id),
                        !.waitingInTheWings = Without(@, id)]
         ELSE s
    ELSE addCharacterToWings(s, id)

\* the body of POST /characters of the standalone director
toggleCharacterStandalone(s, id, active) ==
    IF active
    THEN IF ~Includes(s.activeCharacters, id)
         THEN [s EXCEPT !.activeCharacters = Append(@, id)]
         ELSE s
    ELSE addCharacterToWings(s, id)

\* inputs of the director operations
AuthorInputs == {Null, "john-cena"}
MentionInputs == {{}, {"the-rock"}}      \* the characters a message names
FeudDraws == {0, 99}
SurpriseDraws == {0, 99}
FeudPairInputs == {<<"the-rock", "john-cena">>, <<"the-rock", "stone-cold">>,
                   <<"stone-cold", "the-rock">>}
IntensityInputs == {0, DefaultIntensity, IntensityCap + 20}
RosterInputs == {"john-cena", "the-rock", "stone-cold", "hulk-hogan"}
SurpriseInputs == {Null, "stone-cold"}

\* decideResponders, whoever calls it
decideResponders(message, authorCharacterId) ==
    LET counted == [storyline EXCEPT !.messageCount = @ + 1,
                                     !.beatsSinceLastSurprise = @ + 1]
        heated == IF authorCharacterId # Null THEN updateHeat(counted, authorCharacterId, now)
                  ELSE counted
        candidates == {c \in Range(heated.activeCharacters) :
                          c # authorCharacterId /\ getCharacter(c)}
        feudRelated == {c \in candidates :
                          authorCharacterId # Null /\ authorCharacterId \in getFeudPartners(c)}
    IN
    /\ steps < MaxDirectorOps
    /\ steps' = steps + 1
    /\ \E R \in SUBSET candidates :
       \E draws \in [R \cap feudRelated -> FeudDraws] :
         LET looped == respondLoop([s |-> heated, responders |-> <<>>, possible |-> TRUE],
                                   heated.activeCharacters, 1, authorCharacterId, message,
                                   R, draws, now)
         IN /\ looped.possible
            /\ \/ /\ storyline' = looped.s
                  /\ ret' = [op |-> "decideResponders", author |-> authorCharacterId,
                             responders |-> looped.responders]
               \/ /\ surpriseChance(looped.s) > 0
                  /\ \E pick \in 1..Len(looped.s.waitingInTheWings), random \in SurpriseDraws :
                       LET surprise == triggerSurprise(looped.s, pick, random)
                       IN /\ storyline' = surprise.s
                          /\ ret' = [op |-> "decideResponders", author |-> authorCharacterId,
                                     responders |->
                                        IF surprise.fired
                                        THEN Append(looped.responders,
                                                    [characterId |-> surprise.characterId,
                                                     reason |-> surprise.reason,
                                                     isSurprise |-> TRUE])
                                        ELSE looped.responders]
    /\ IF storyline'.messageCount % 10 = 0 THEN SaveState(storyline')
       ELSE UNCHANGED stateFile
    /\ UNCHANGED <<now, ledgerVars, ppvVars, matchVars, controllerVars>>

\* decideResponders called on its own
DecideResponders(message, authorCharacterId) ==
    /\ decideResponders(message, authorCharacterId)
    /\ UNCHANGED chat

\* the messageCreate handler up to its first await: decideResponders, and
\* the loop over the responders entered when there are any
MessageCreate(message, authorCharacterId) ==
    /\ Len(chat.handlers) < MaxMessages
    /\ decideResponders(message, authorCharacterId)
    /\ chat' = [chat EXCEPT !.handlers =
                   Append(@, [responders |-> ret'.responders, i |-> 1, log |-> <<>>,
                              pc |-> IF ret'.responders = <<>> THEN "done" ELSE "delay"])]

\* the handler after the body of its loop: the next responder, or the end
nextResponder(hr) ==
    [hr EXCEPT !.i = @ + 1, !.pc = IF hr.i < Len(hr.responders) THEN "delay" ELSE "done"]

\* what a handler did for its current responder, noted in its log
Logged(hr, kind) == [hr EXCEPT !.log = Append(@, [i |-> hr.i, kind |-> kind])]

\* handler h resumes after the response delay and sendTyping: generateResponse
\* sends its request to Ollama
StartGeneration(h) ==
    /\ h \in 1..Len(chat.handlers)
    /\ chat.handlers[h].pc = "delay"
    /\ chat' = [chat EXCEPT !.handlers[h] = [Logged(@, "generate") EXCEPT !.pc = "generating"]]
    /\ UNCHANGED <<now, steps, ret, storyline, stateFile, ledgerVars, ppvVars, matchVars,
                   controllerVars>>

\* a handler that gives up on the first responder whose generation fails
Generated_StopsOnFailure(h, text) ==
    /\ h \in 1..Len(chat.handlers)
    /\ chat.handlers[h].pc = "generating"
    /\ chat' = [chat EXCEPT !.handlers[h] =
                   IF text THEN [@ EXCEPT !.pc = "typing"]
                   ELSE [Logged(@, "skipped") EXCEPT !.pc = "done"]]
    /\ UNCHANGED <<now, steps, ret, storyline, stateFile, ledgerVars, ppvVars, matchVars,
                   controllerVars>>

\* generateResponse of handler h returns: a text, or no text (null after an
\* error of the request, or an empty string), and then the responder is skipped
Generated(h, text) ==
    /\ h \in 1..Len(chat.handlers)
    /\ chat.handlers[h].pc = "generating"
    /\ chat' = [chat EXCEPT !.handlers[h] =
                   IF text THEN [@ EXCEPT !.pc = "typing"]
                   ELSE nextResponder(Logged(@, "skipped"))]
    /\ UNCHANGED <<now, steps, ret, storyline, stateFile, ledgerVars, ppvVars, matchVars,
                   controllerVars>>

\* handler h resumes after the typing delay: sendAsCharacter, whose send
\* goes out or fails and is caught; after a surprise entrance the crowd may
\* have a chant to post
Publish(h, sent, chant) ==
    LET hr == chat.handlers[h]
        told == Logged(hr, IF sent THEN "published" ELSE "unsent")
    IN
    /\ h \in 1..Len(chat.handlers)
    /\ hr.pc = "typing"
    /\ chat' = [chat EXCEPT !.handlers[h] =
                   IF hr.responders[hr.i].isSurprise /\ chant
                   THEN [told EXCEPT !.pc = "crowd"]
                   ELSE nextResponder(told)]
    /\ UNCHANGED <<now, steps, ret, storyline, stateFile, ledgerVars, ppvVars, matchVars,
                   controllerVars>>

\* handler h resumes after the pause before the chant: the send of the chant
\* goes out, or throws and ends the handler
CrowdChant(h, sent) ==
    /\ h \in 1..Len(chat.handlers)
    /\ chat.handlers[h].pc = "crowd"
    /\ chat' = [chat EXCEPT !.handlers[h] =
                   IF sent THEN nextResponder(@) ELSE [@ EXCEPT !.pc = "aborted"]]
    /\ UNCHANGED <<now, steps, ret, storyline, stateFile, ledgerVars, ppvVars, matchVars,
                   controllerVars>>

\* POST /surprise: the optional addCharacterToWings, then triggerSurprise
SurpriseRoute(characterId) ==
    LET winged == IF characterId # Null /\ ~Includes(storyline.activeCharacters, characterId)
                  THEN addCharacterToWings(storyline, characterId)
                  ELSE storyline
    IN
    /\ steps < MaxDirectorOps
    /\ steps' = steps + 1
    /\ \/ /\ Len(winged.waitingInTheWings) = 0
          /\ storyline' = winged
          /\ ret' = [op |-> "triggerSurprise", fired |-> FALSE, characterId |-> Null]
       \/ \E pick \in 1..Len(winged.waitingInTheWings), random \in SurpriseDraws :
            LET surprise == triggerSurprise(winged, pick, random)
            IN /\ storyline' = surprise.s
               /\ ret' = [op |-> "triggerSurprise", fired |-> surprise.fired,
                          characterId |-> surprise.characterId]
    /\ UNCHANGED <<now, stateFile, chat, ledgerVars, ppvVars, matchVars, controllerVars>>

CreateFeud(char1, char2, intensity) ==
    /\ steps < MaxDirectorOps
    /\ steps' = steps + 1
    /\ storyline' = createFeud(storyline, char1, char2, intensity)
    /\ ret' = [op |-> "createFeud", char1 |-> char1, char2 |-> char2, intensity |-> intensity,
               existed |-> FindFeud(storyline.feuds, char1, char2) # 0]
    /\ IF FindFeud(storyline.feuds, char1, char2) = 0 THEN SaveState(storyline')
       ELSE UNCHANGED stateFile
    /\ UNCHANGED <<now, chat, ledgerVars, ppvVars, matchVars, controllerVars>>

AddCharacterToWings(characterId) ==
    /\ steps < MaxDirectorOps
    /\ steps' = steps + 1
    /\ storyline' = addCharacterToWings(storyline, characterId)
    /\ ret' = [op |-> "addCharacterToWings", characterId |-> characterId]
    /\ UNCHANGED <<now, stateFile, chat, ledgerVars, ppvVars, matchVars, controllerVars>>

DeactivateCharacter(characterId) ==
    /\ steps < MaxDirectorOps
    /\ steps' = steps + 1
    /\ storyline' = deactivateCharacter(storyline, characterId)
    /\ ret' = [op |-> "deactivateCharacter", characterId |-> characterId]
    /\ SaveState(storyline')
    /\ UNCHANGED <<now, chat, ledgerVars, ppvVars, matchVars, controllerVars>>

\* POST /characters of the full director
ToggleCharacter(id, active) ==
    /\ steps < MaxDirectorOps
    /\ steps' = steps + 1
    /\ ret' = [op |-> "toggleCharacter", characterId |-> id, active |-> active,
               error |-> ~getCharacter(id)]
    /\ IF ~getCharacter(id)
       THEN UNCHANGED directorVars
       ELSE /\ storyline' = toggleCharacter(storyline, id, active)
            /\ SaveState(storyline')
    /\ UNCHANGED <<now, chat, ledgerVars, ppvVars, matchVars, controllerVars>>

\* POST /characters of the standalone director
ToggleCharacterStandalone(id, active) ==
    /\ steps < MaxDirectorOps
    /\ steps' = steps + 1
    /\ ret' = [op |-> "toggleCharacter", characterId |-> id, active |-> active,
               error |-> ~getCharacter(id)]
    /\ IF ~getCharacter(id)
       THEN UNCHANGED directorVars
       ELSE /\ storyline' = toggleCharacterStandalone(storyline, id, active)
            /\ UNCHANGED stateFile
    /\ UNCHANGED <<now, chat, ledgerVars, ppvVars, matchVars, controllerVars>>

\* the process is stopped and started again: the SIGTERM or SIGINT handler
\* saves, and main then constructs the engine and loads STATE_FILE
Restart ==
    /\ steps < MaxDirectorOps + 1
    /\ steps' = steps + 1
    /\ SaveState(storyline)
    /\ storyline' = loadState(stateFile')
    /\ ret' = [op |-> "restart"]
    /\ UNCHANGED <<now, chat, ledgerVars, ppvVars, matchVars, controllerVars>>

\* a director that has already handled k messages of a non-character author
\* to which nobody responded
QuietStart(k) == [NewStoryline EXCEPT !.messageCount = k, !.beatsSinceLastSurprise = k]

\* the history records loadState keeps
StoryLimit == 100

\* a director that has handled k messages of the-rock, each more than the
\* heat window after the one before and the last one that long ago, each
\* answered by john-cena alone with trash talk and none with a surprise
LongStory(k) ==
    [NewStoryline EXCEPT
        !.messageCount = k,
        !.beatsSinceLastSurprise = k,
        !.feuds[1].intensity = Min(IntensityCap, 70 + 3 * k),
        !.heatMap["the-rock"] = <<0 - HeatWindow>>,
        !.heatMap["john-cena"] = <<0 - HeatWindow>>,
        !.storylineHistory =
            [i \in 1..k |-> [beat |-> "trash-talk",
                             characters |-> <<"john-cena", "the-rock">>,
                             intensity |-> Min(IntensityCap, 70 + 3 * (i - 1))]]]

DirectorStarts == {NewStoryline, QuietStart(8), LongStory(StoryLimit)}

\* no message has come in
NoChat == [handlers |-> <<>>]

FreshDirector ==
    /\ storyline = NewStoryline
    /\ stateFile = NoFile
    /\ chat = NoChat

\* ========================================================= Match Simulator
\* damage is held in hundredths of a point, a finish score in thousandths
DamageCap == 10000
MomentumCap == 10
SafetyValve == 20

Undefined == "undefined"

\* participants is the pair <<least, most>> of the catalog entry
MatchType(lo, hi, rmin, rmax, conditions, weapons) ==
    [participants |-> <<lo, hi>>, rounds |-> [min |-> rmin, max |-> rmax],
     winConditions |-> conditions, weaponsAllowed |-> weapons]

MATCH_TYPES ==
    ("singles" :> MatchType(2, 2, 4, 7, <<"pinfall", "submission", "count-out", "dq">>, FALSE)) @@
    ("no-dq" :> MatchType(2, 2, 5, 8, <<"pinfall", "submission">>, TRUE)) @@
    ("steel-cage" :> MatchType(2, 2, 5, 9, <<"pinfall", "submission", "escape">>, FALSE)) @@
    ("hell-in-a-cell" :> MatchType(2, 2, 6, 10, <<"pinfall", "submission">>, TRUE)) @@
    ("ladder" :> MatchType(2, 6, 5, 9, <<"retrieve">>, FALSE)) @@
    ("triple-threat" :> MatchType(3, 3, 5, 8, <<"pinfall", "submission">>, FALSE)) @@
    ("fatal-four-way" :> MatchType(4, 4, 5, 9, <<"pinfall", "submission">>, FALSE)) @@
    ("tag-team" :> MatchType(4, 4, 4, 7, <<"pinfall", "submission", "count-out", "dq">>, FALSE)) @@
    ("royal-rumble" :> MatchType(3, 30, 8, 15, <<"last-standing">>, FALSE))

MATCH_BEATS ==
    [early |-> <<"lock-up", "feeling-out", "headlock-takeover", "shoulder-block",
                 "chain-wrestling", "staredown", "cheap-shot", "test-of-strength">>,
     mid |-> <<"momentum-shift", "signature-move", "near-fall", "counter",
               "top-rope-attempt", "outside-brawl", "submission-hold", "comeback",
               "distraction", "double-down", "ref-bump", "weapon-shot">>,
     late |-> <<"finisher-attempt", "finisher-counter", "near-fall-kickout",
                "desperation-move", "second-wind", "super-finisher", "roll-up">>,
     finish |-> <<"clean-finish", "dirty-finish", "surprise-roll-up", "submission-tap",
                  "interference", "double-count-out", "ref-stoppage">>]

NoMatch == [exists |-> FALSE, winner |-> Null]
NoCall == [running |-> FALSE]

FreshMatchEngine ==
    /\ activeMatch = NoMatch
    /\ matchHistory = <<>>
    /\ fullMatch = NoCall
    /\ rng = <<0>>

\* obj[key] || 0
Get(obj, key) == IF key \in DOMAIN obj THEN obj[key] ELSE 0

\* obj[key] = value
Put(obj, key, value) == [k \in DOMAIN obj \cup {key} |-> IF k = key THEN value ELSE obj[k]]

Truthy(v) == v # Null /\ v # Undefined

\* the first participant createMatch rejects, Null when it rejects none
FirstUnknown(participants) ==
    LET bad == {i \in 1..Len(participants) : ~getCharacter(participants[i])}
    IN IF bad = {} THEN Null
       ELSE participants[CHOOSE i \in bad : \A j \in bad : i <= j]

\* the validation of createMatch without the pass over the participants
createMatchError_TypeOnly(participants, matchType) ==
    IF matchType \notin DOMAIN MATCH_TYPES THEN [error |-> TRUE, unknown |-> matchType]
    ELSE [error |-> FALSE, unknown |-> Null]

\* the validation of createMatch
createMatchError(participants, matchType) ==
    IF matchType \notin DOMAIN MATCH_TYPES THEN [error |-> TRUE, unknown |-> matchType]
    ELSE IF FirstUnknown(participants) # Null
    THEN [error |-> TRUE, unknown |-> FirstUnknown(participants)]
    ELSE [error |-> FALSE, unknown |-> Null]

\* the match createMatch installs, for the offset of totalRounds above the
\* type's minimum that Math.random() yields; of each entry of events the
\* round and the phase are kept
createMatch(participants, matchType, forTitle, extraRounds, t) ==
    [exists |-> TRUE,
     id |-> t, type |-> matchType, participants |-> participants, forTitle |-> forTitle,
     totalRounds |-> MATCH_TYPES[matchType].rounds.min + extraRounds,
     currentRound |-> 0,
     momentum |-> [c \in Range(participants) |-> 0],
     damage |-> [c \in Range(participants) |-> 0],
     eliminated |-> <<>>, events |-> <<>>, winner |-> Null, winMethod |-> Null]

\* a _getPhase for which the last round is still a late one
getPhase_NoFinish(match) ==
    IF 4 * match.currentRound <= match.totalRounds THEN "early"
    ELSE IF 5 * match.currentRound <= 3 * match.totalRounds THEN "mid"
    ELSE "late"

\* _getPhase, after currentRound has been advanced
getPhase(match) ==
    IF 4 * match.currentRound <= match.totalRounds THEN "early"
    ELSE IF 5 * match.currentRound <= 3 * match.totalRounds THEN "mid"
    ELSE IF match.currentRound < match.totalRounds THEN "late"
    ELSE "finish"

Alive(match) == SelectSeq(match.participants, LAMBDA c : ~Includes(match.eliminated, c))

\* Math.random() is read off rng, a cycle of readings in thousandths
Random(stream, k) == stream[((k - 1) % Len(stream)) + 1]

\* the stream after k readings
Advance(stream, k) == [i \in 1..Len(stream) |-> stream[((i + k - 1) % Len(stream)) + 1]]

\* Math.floor(Math.random() * n)
Floor(r, n) == (r * n) \div 1000

\* a _pickCombatants that leaves the list in the order given
Combatants_InListOrder(alive, r) ==
    LET n == Len(alive)
    IN IF n = 0 THEN <<Undefined, Undefined>>
       ELSE IF n = 1 THEN <<alive[1], Undefined>>
       ELSE <<alive[1], alive[2]>>

\* _pickCombatants: the first two of the ordering of alive that the shuffle
\* leaves, the k-th of the ordered pairs of distinct positions; a missing
\* position reads as undefined
Combatants(alive, r) ==
    LET n == Len(alive)
        k == Floor(r, n * (n - 1))
        i == (k \div (n - 1)) + 1
        j == (k % (n - 1)) + 1
    IN IF n = 0 THEN <<Undefined, Undefined>>
       ELSE IF n = 1 THEN <<alive[1], Undefined>>
       ELSE <<alive[i], alive[IF j >= i THEN j + 1 ELSE j]>>

\* _pickBeat
pickBeat(match, phase, r) ==
    LET beats == MATCH_BEATS[phase]
        filtered == IF MATCH_TYPES[match.type].weaponsAllowed THEN beats
                    ELSE SelectSeq(beats, LAMBDA beat : beat # "weapon-shot")
    IN filtered[Floor(r, Len(filtered)) + 1]

IsReversal(beat) == beat \in {"counter", "finisher-counter", "comeback"}

\* dmg of _resolveBeat, in hundredths
Damage(phase, r) ==
    IF phase = "early" THEN r
    ELSE IF phase = "mid" THEN (r * 15) \div 10 + 500
    ELSE r * 2 + 1000

\* _resolveBeat with no clamp on what it writes
resolveBeat_Unclamped(match, beat, actor, target, momentumSwing, dmg) ==
    LET m1 == Put(match.momentum, actor, Get(match.momentum, actor) + momentumSwing)
        m2 == Put(m1, target, Get(m1, target) - 1)
        d1 == Put(match.damage, target, Get(match.damage, target) + dmg)
        m3 == Put(m2, actor, m2[actor] - momentumSwing * 2)
        m4 == Put(m3, target, m3[target] + momentumSwing * 2)
        d2 == Put(d1, actor, Get(d1, actor) + dmg \div 2)
    IN IF IsReversal(beat) THEN [match EXCEPT !.momentum = m4, !.damage = d2]
       ELSE [match EXCEPT !.momentum = m2, !.damage = d1]

resolveBeat(match, beat, actor, target, momentumSwing, dmg) ==
    LET m1 == Put(match.momentum, actor,
                  Min(MomentumCap, Get(match.momentum, actor) + momentumSwing))
        m2 == Put(m1, target, Max(-MomentumCap, Get(m1, target) - 1))
        d1 == Put(match.damage, target, Min(DamageCap, Get(match.damage, target) + dmg))
        m3 == Put(m2, actor, Max(-MomentumCap, m2[actor] - momentumSwing * 2))
        m4 == Put(m3, target, Min(MomentumCap, m3[target] + momentumSwing * 2))
        d2 == Put(d1, actor, Min(DamageCap, Get(d1, actor) + dmg \div 2))
    IN IF IsReversal(beat) THEN [match EXCEPT !.momentum = m4, !.damage = d2]
       ELSE [match EXCEPT !.momentum = m2, !.damage = d1]

\* a final score in thousandths: momentum + damage / 10 + Math.random() * 5
FinalScore(match, who, opponent, r) ==
    Get(match.momentum, who) * 1000 + Get(match.damage, opponent) + r * 5

\* _resolveFinish that gives an exact tie to the target
resolveFinish_Strict(match, actor, target, rActor, rTarget, rMethod) ==
    LET methods == MATCH_TYPES[match.type].winConditions
    IN [match EXCEPT
           !.winner = IF FinalScore(match, actor, target, rActor) >
                         FinalScore(match, target, actor, rTarget)
                      THEN actor ELSE target,
           !.winMethod = methods[Floor(rMethod, Len(methods)) + 1]]

\* _resolveFinish that picks the win method and names no winner
resolveFinish_NoWinner(match, actor, target, rActor, rTarget, rMethod) ==
    LET methods == MATCH_TYPES[match.type].winConditions
    IN [match EXCEPT !.winMethod = methods[Floor(rMethod, Len(methods)) + 1]]

resolveFinish(match, actor, target, rActor, rTarget, rMethod) ==
    LET methods == MATCH_TYPES[match.type].winConditions
    IN [match EXCEPT
           !.winner = IF FinalScore(match, actor, target, rActor) >=
                         FinalScore(match, target, actor, rTarget)
                      THEN actor ELSE target,
           !.winMethod = methods[Floor(rMethod, Len(methods)) + 1]]

RECURSIVE SumOthers(_, _, _)
SumOthers(damage, keys, p) ==
    IF keys = {} THEN 0
    ELSE LET k == CHOOSE x \in keys : TRUE
         IN (IF k # p THEN damage[k] ELSE 0) + SumOthers(damage, keys \ {k}, p)

\* the loop of _forceFinish from position i on; none stands for -Infinity
RECURSIVE forceLoop(_, _, _, _, _, _)
forceLoop(match, alive, i, winner, bestScore, none) ==
    IF i > Len(alive) THEN winner
    ELSE LET score == SumOthers(match.damage, DOMAIN match.damage, alive[i])
         IN IF none \/ score > bestScore
            THEN forceLoop(match, alive, i + 1, alive[i], score, FALSE)
            ELSE forceLoop(match, alive, i + 1, winner, bestScore, none)

forceFinish(match) ==
    LET alive == Alive(match)
    IN [match EXCEPT
           !.winner = forceLoop(match, alive, 1,
                                IF Len(alive) = 0 THEN Undefined ELSE alive[1], 0, TRUE),
           !.winMethod = "pinfall"]

NullRound == [isNull |-> TRUE]

\* simulateRound on a live match: the match afterwards, the round it
\* returns and the readings of Math.random() it took
simulateRound(match, stream) ==
    LET started == [match EXCEPT !.currentRound = @ + 1]
        phase == getPhase(started)
        pair == Combatants(Alive(started), Random(stream, 1))
        actor == pair[1]
        target == pair[2]
        beat == pickBeat(started, phase, Random(stream, 2))
        momentumSwing == Floor(Random(stream, 3), 3) + 1
        dmg == Damage(phase, Random(stream, 4))
        beaten == resolveBeat(started, beat, actor, target, momentumSwing, dmg)
        logged == [beaten EXCEPT !.events = Append(@, [round |-> started.currentRound,
                                                       phase |-> phase])]
        finishing == phase = "finish" \/
                     (phase = "late" /\ started.currentRound >= started.totalRounds)
        final == IF finishing
                 THEN resolveFinish(logged, actor, target, Random(stream, 5),
                                    Random(stream, 6), Random(stream, 7))
                 ELSE logged
    IN [match |-> final,
        round |-> [isNull |-> FALSE, round |-> final.currentRound,
                   totalRounds |-> final.totalRounds, phase |-> phase, beat |-> beat,
                   actor |-> actor, target |-> target, momentumSwing |-> momentumSwing,
                   damageDealt |-> dmg, isFinish |-> Truthy(final.winner),
                   winner |-> final.winner, winMethod |-> final.winMethod],
        readings |-> IF finishing THEN 7 ELSE 4]

\* the summary simulateFullMatch appends to matchHistory
Summary(match, rounds, t) ==
    [id |-> match.id, type |-> match.type, participants |-> match.participants,
     winner |-> match.winner, winMethod |-> match.winMethod, rounds |-> rounds,
     forTitle |-> match.forTitle, timestamp |-> t]

Idle == ~fullMatch.running

\* range of totalRounds above the type's minimum
RoundSpread(matchType) ==
    MATCH_TYPES[matchType].rounds.max - MATCH_TYPES[matchType].rounds.min + 1

CreateMatch(participants, matchType, forTitle) ==
    /\ Idle
    /\ steps < MaxMatchOps
    /\ steps' = steps + 1
    /\ LET check == createMatchError(participants, matchType)
       IN IF check.error
          THEN /\ ret' = [op |-> "createMatch", participants |-> participants,
                          matchType |-> matchType, error |-> TRUE, unknown |-> check.unknown]
               /\ UNCHANGED <<activeMatch, rng>>
          ELSE /\ activeMatch' = createMatch(participants, matchType, forTitle,
                                             Floor(Random(rng, 1), RoundSpread(matchType)), now)
               /\ rng' = Advance(rng, 1)
               /\ ret' = [op |-> "createMatch", participants |-> participants,
                          matchType |-> matchType, error |-> FALSE, unknown |-> Null]
    /\ UNCHANGED <<now, matchHistory, fullMatch, ledgerVars, ppvVars, directorVars,
                   controllerVars>>

SimulateRound ==
    /\ Idle
    /\ steps < MaxMatchOps + MaxRoundOps
    /\ steps' = steps + 1
    /\ IF ~activeMatch.exists \/ Truthy(activeMatch.winner)
       THEN /\ ret' = [op |-> "simulateRound", round |-> NullRound]
            /\ UNCHANGED <<activeMatch, rng>>
       ELSE LET r == simulateRound(activeMatch, rng)
            IN /\ activeMatch' = r.match
               /\ rng' = Advance(rng, r.readings)
               /\ ret' = [op |-> "simulateRound", round |-> r.round]
    /\ UNCHANGED <<now, matchHistory, fullMatch, ledgerVars, ppvVars, directorVars,
                   controllerVars>>

\* simulateFullMatch up to its loop: createMatch and the early return
SimulateFullMatch(participants, matchType, forTitle) ==
    /\ Idle
    /\ steps < MaxMatchOps
    /\ steps' = steps + 1
    /\ LET check == createMatchError(participants, matchType)
       IN IF check.error
          THEN /\ ret' = [op |-> "simulateFullMatch", participants |-> participants,
                          matchType |-> matchType, error |-> TRUE, unknown |-> check.unknown,
                          pending |-> FALSE]
               /\ UNCHANGED <<activeMatch, fullMatch, rng>>
          ELSE /\ activeMatch' = createMatch(participants, matchType, forTitle,
                                             Floor(Random(rng, 1), RoundSpread(matchType)), now)
               /\ rng' = Advance(rng, 1)
               /\ fullMatch' = [running |-> TRUE, rounds |-> 0, broke |-> FALSE]
               /\ ret' = [op |-> "simulateFullMatch", participants |-> participants,
                          matchType |-> matchType, error |-> FALSE, unknown |-> Null,
                          pending |-> TRUE]
    /\ UNCHANGED <<now, matchHistory, ledgerVars, ppvVars, directorVars, controllerVars>>

\* one pass of the loop of simulateFullMatch: simulateRound, and the safety
\* valve once more than SafetyValve rounds are collected
FullMatchRound ==
    /\ fullMatch.running
    /\ ~fullMatch.broke
    /\ ~Truthy(activeMatch.winner)
    /\ LET r == simulateRound(activeMatch, rng)
       IN /\ rng' = Advance(rng, r.readings)
          /\ ret' = [op |-> "simulateRound", round |-> r.round]
          /\ IF fullMatch.rounds + 1 > SafetyValve
             THEN /\ activeMatch' = forceFinish(r.match)
                  /\ fullMatch' = [fullMatch EXCEPT !.rounds = @ + 2, !.broke = TRUE]
             ELSE /\ activeMatch' = r.match
                  /\ fullMatch' = [fullMatch EXCEPT !.rounds = @ + 1]
    /\ UNCHANGED <<now, steps, matchHistory, ledgerVars, ppvVars, directorVars, controllerVars>>

\* a return that leaves the finished match in activeMatch
FullMatchReturn_KeepsLive ==
    /\ fullMatch.running
    /\ fullMatch.broke \/ Truthy(activeMatch.winner)
    /\ matchHistory' = Append(matchHistory, Summary(activeMatch, fullMatch.rounds, now))
    /\ ret' = [op |-> "simulateFullMatch", participants |-> activeMatch.participants,
               matchType |-> activeMatch.type, error |-> FALSE, unknown |-> Null,
               pending |-> FALSE, match |-> activeMatch, rounds |-> fullMatch.rounds]
    /\ activeMatch' = activeMatch
    /\ fullMatch' = NoCall
    /\ UNCHANGED <<now, steps, rng, ledgerVars, ppvVars, directorVars, controllerVars>>

\* simulateFullMatch after its loop: the history record and the return
FullMatchReturn ==
    /\ fullMatch.running
    /\ fullMatch.broke \/ Truthy(activeMatch.winner)
    /\ matchHistory' = Append(matchHistory, Summary(activeMatch, fullMatch.rounds, now))
    /\ ret' = [op |-> "simulateFullMatch", participants |-> activeMatch.participants,
               matchType |-> activeMatch.type, error |-> FALSE, unknown |-> Null,
               pending |-> FALSE, match |-> activeMatch, rounds |-> fullMatch.rounds]
    /\ activeMatch' = NoMatch
    /\ fullMatch' = NoCall
    /\ UNCHANGED <<now, steps, rng, ledgerVars, ppvVars, directorVars, controllerVars>>

\* the calls made of the simulator: every match type with a list of a legal
\* size, lists that are too short, an unknown type and an unknown participant
BookingInputs ==
    {<<"singles", <<"john-cena", "the-rock">>>>,
     <<"no-dq", <<"the-rock", "stone-cold">>>>,
     <<"steel-cage", <<"john-cena", "stone-cold">>>>,
     <<"hell-in-a-cell", <<"the-rock", "john-cena">>>>,
     <<"ladder", <<"john-cena", "the-rock", "stone-cold">>>>,
     <<"triple-threat", <<"john-cena", "the-rock", "stone-cold">>>>,
     <<"fatal-four-way", <<"john-cena", "the-rock", "stone-cold", "john-cena">>>>,
     <<"tag-team", <<"john-cena", "the-rock", "stone-cold", "the-rock">>>>,
     <<"royal-rumble", <<"stone-cold", "the-rock", "john-cena">>>>,
     <<"singles", <<"john-cena">>>>,
     <<"ladder", <<"the-rock">>>>,
     <<"triple-threat", <<"john-cena", "the-rock">>>>,
     <<"ladder", <<>>>>,
     <<"pillow-fight", <<"john-cena", "the-rock">>>>,
     <<"singles", <<"john-cena", "hulk-hogan">>>>,
     <<"pillow-fight", <<"hulk-hogan">>>>}
TitleOptionInputs == {Null}

\* the readings Math.random() is sampled at, and the cycles made of them
RandomInputs == {0, 300, 500, 996}
RandomStreams == [1..StreamLen -> RandomInputs]

\* ============================================================= PPV Booker
PPV_TEMPLATES == {"wrestlemania", "summerslam", "royal-rumble", "survivor_series",
                  "hell-in-a-cell-ppv", "money-in-the-bank", "tables-ladders-chairs",
                  "elimination_chamber"}

CompletedCap == 20

\* a completed-events list loaded from a save of k past shows
AfterShows(k) ==
    [i \in 1..k |-> [id |-> 0 - i, templateId |-> "wrestlemania", status |-> "completed",
                     matchCard |-> <<[order |-> 1, participants |-> <<"john-cena", "the-rock">>,
                                      matchType |-> "singles", forTitle |-> Null,
                                      isMainEvent |-> TRUE]>>,
                     results |-> <<>>]]

\* constructor
FreshPPV ==
    /\ events = <<>>
    /\ scheduledEvents = <<>>
    /\ completedEvents = <<>>
    /\ activeEvent = NoEvent
    /\ runs = <<>>

\* `ppv-${Date.now()}`: the id is the clock reading
EventId(t) == t

\* index of the first scheduled event with this id, 0 when there is none
\* (Array.prototype.findIndex / find)
FindScheduled(eventId) ==
    LET hits == {i \in 1..Len(scheduledEvents) : events[scheduledEvents[i]].id = eventId}
    IN IF hits = {} THEN 0 ELSE CHOOSE i \in hits : \A j \in hits : i <= j

\* Array.prototype.splice(idx, 1)
RemoveAt(s, idx) == SubSeq(s, 1, idx - 1) \o SubSeq(s, idx + 1, Len(s))

\* inputs of the booker operations
TemplateInputs == {"wrestlemania", "backlash"}
CardEntryInputs ==
    {[participants |-> <<"john-cena", "the-rock">>, matchType |-> "singles",
      forTitle |-> Null, isMainEvent |-> FALSE],
     [participants |-> <<"the-rock", "stone-cold">>, matchType |-> "no-dq",
      forTitle |-> "wwe-championship", isMainEvent |-> TRUE]}
SuppliedCards ==
    {<<>>, <<[order |-> 1, participants |-> <<"john-cena", "stone-cold">>,
              matchType |-> "singles", forTitle |-> Null, isMainEvent |-> FALSE]>>}
ResultInputs ==
    {[winner |-> "john-cena", winMethod |-> "pinfall", rounds |-> 5, titleChange |-> FALSE],
     [winner |-> "the-rock", winMethod |-> "submission", rounds |-> 6, titleChange |-> TRUE]}
EventIdInputs == 0..MaxClock \cup {MaxClock + 7}

ScheduleEvent(templateId, matchCard) ==
    /\ steps < MaxPPVOps
    /\ steps' = steps + 1
    /\ IF templateId \notin PPV_TEMPLATES
       THEN /\ ret' = [op |-> "scheduleEvent", error |-> TRUE, event |-> NoEvent]
            /\ UNCHANGED ppvVars
       ELSE /\ Len(events) < MaxEvents
            /\ events' = Append(events,
                   [id |-> EventId(now), templateId |-> templateId, status |-> "scheduled",
                    matchCard |-> matchCard, results |-> <<>>])
            /\ scheduledEvents' = Append(scheduledEvents, Len(events) + 1)
            /\ ret' = [op |-> "scheduleEvent", error |-> FALSE, event |-> Len(events) + 1]
            /\ UNCHANGED <<completedEvents, activeEvent, runs>>
    /\ UNCHANGED <<now, ledgerVars, directorVars, matchVars, controllerVars>>

AddMatch(eventId, match) ==
    LET idx == FindScheduled(eventId)
        ref == scheduledEvents[idx]
        entry == [order |-> Len(events[ref].matchCard) + 1,
                  participants |-> match.participants, matchType |-> match.matchType,
                  forTitle |-> match.forTitle, isMainEvent |-> match.isMainEvent]
    IN
    /\ steps < MaxPPVOps
    /\ steps' = steps + 1
    /\ IF idx = 0 \/ events[ref].status # "scheduled"
       THEN /\ ret' = [op |-> "addMatch", error |-> TRUE, event |-> NoEvent]
            /\ UNCHANGED ppvVars
       ELSE /\ Len(events[ref].matchCard) < MaxCard
            /\ events' = [events EXCEPT ![ref].matchCard = Append(@, entry)]
            /\ ret' = [op |-> "addMatch", error |-> FALSE, event |-> ref]
            /\ UNCHANGED <<scheduledEvents, completedEvents, activeEvent, runs>>
    /\ UNCHANGED <<now, ledgerVars, directorVars, matchVars, controllerVars>>

\* startEvent without the splice that takes the event off the scheduled list
startEvent_KeepScheduled(eventId) ==
    LET idx == FindScheduled(eventId)
        ref == scheduledEvents[idx]
    IN
    IF idx = 0
    THEN /\ ret' = [op |-> "startEvent", eventId |-> eventId, error |-> TRUE, event |-> NoEvent]
         /\ UNCHANGED ppvVars
    ELSE IF events[ref].matchCard = <<>>
    THEN /\ ret' = [op |-> "startEvent", eventId |-> eventId, error |-> TRUE, event |-> NoEvent]
         /\ UNCHANGED ppvVars
    ELSE /\ events' = [events EXCEPT ![ref].status = "in-progress", ![ref].results = <<>>]
         /\ activeEvent' = ref
         /\ scheduledEvents' = scheduledEvents
         /\ ret' = [op |-> "startEvent", eventId |-> eventId, error |-> FALSE, event |-> ref]
         /\ UNCHANGED completedEvents

\* startEvent without the check for an empty card
startEvent_AnyCard(eventId) ==
    LET idx == FindScheduled(eventId)
        ref == scheduledEvents[idx]
    IN
    IF idx = 0
    THEN /\ ret' = [op |-> "startEvent", eventId |-> eventId, error |-> TRUE, event |-> NoEvent]
         /\ UNCHANGED ppvVars
    ELSE /\ events' = [events EXCEPT ![ref].status = "in-progress", ![ref].results = <<>>]
         /\ activeEvent' = ref
         /\ scheduledEvents' = RemoveAt(scheduledEvents, idx)
         /\ ret' = [op |-> "startEvent", eventId |-> eventId, error |-> FALSE, event |-> ref]
         /\ UNCHANGED completedEvents

\* PPVEngine.startEvent
startEvent(eventId) ==
    LET idx == FindScheduled(eventId)
        ref == scheduledEvents[idx]
    IN
    IF idx = 0
    THEN /\ ret' = [op |-> "startEvent", eventId |-> eventId, error |-> TRUE, event |-> NoEvent]
         /\ UNCHANGED ppvVars
    ELSE IF events[ref].matchCard = <<>>
    THEN /\ ret' = [op |-> "startEvent", eventId |-> eventId, error |-> TRUE, event |-> NoEvent]
         /\ UNCHANGED ppvVars
    ELSE /\ events' = [events EXCEPT ![ref].status = "in-progress", ![ref].results = <<>>]
         /\ activeEvent' = ref
         /\ scheduledEvents' = RemoveAt(scheduledEvents, idx)
         /\ ret' = [op |-> "startEvent", eventId |-> eventId, error |-> FALSE, event |-> ref]
         /\ UNCHANGED completedEvents

StartEvent(eventId) ==
    /\ steps < MaxPPVOps
    /\ steps' = steps + 1
    /\ startEvent(eventId)
    /\ runs' = runs
    /\ UNCHANGED <<now, ledgerVars, directorVars, matchVars, controllerVars>>

RecordMatchResult(matchOrder, result) ==
    /\ steps < MaxPPVOps
    /\ steps' = steps + 1
    /\ ret' = [op |-> "recordMatchResult", error |-> FALSE, event |-> activeEvent]
    /\ IF activeEvent = NoEvent
       THEN UNCHANGED ppvVars
       ELSE /\ Len(events[activeEvent].results) < MaxCard
            /\ events' = [events EXCEPT ![activeEvent].results =
                   Append(@, [order |-> matchOrder, winner |-> result.winner,
                              winMethod |-> result.winMethod, rounds |-> result.rounds,
                              titleChange |-> result.titleChange, timestamp |-> now])]
            /\ UNCHANGED <<scheduledEvents, completedEvents, activeEvent, runs>>
    /\ UNCHANGED <<now, ledgerVars, directorVars, matchVars, controllerVars>>

CompleteEvent ==
    /\ steps < MaxPPVOps
    /\ steps' = steps + 1
    /\ IF activeEvent = NoEvent
       THEN /\ ret' = [op |-> "completeEvent", error |-> TRUE, event |-> NoEvent]
            /\ UNCHANGED ppvVars
       ELSE /\ events' = [events EXCEPT ![activeEvent].status = "completed"]
            /\ completedEvents' = Append(completedEvents, events'[activeEvent])
            /\ activeEvent' = NoEvent
            /\ ret' = [op |-> "completeEvent", error |-> FALSE, event |-> activeEvent]
            /\ UNCHANGED <<scheduledEvents, runs>>
    /\ UNCHANGED <<now, ledgerVars, directorVars, matchVars, controllerVars>>

\* the cards the events of a run are scheduled with
RunCards ==
    {<<[order |-> 1, participants |-> <<"john-cena", "the-rock">>, matchType |-> "singles",
        forTitle |-> "wwe-championship", isMainEvent |-> TRUE]>>,
     <<[order |-> 1, participants |-> <<"the-rock", "stone-cold">>, matchType |-> "no-dq",
        forTitle |-> Null, isMainEvent |-> TRUE],
       [order |-> 2, participants |-> <<"john-cena", "triple-h">>, matchType |-> "singles",
        forTitle |-> Null, isMainEvent |-> FALSE]>>}

\* what a simulateFullMatch call of the run returns in result.match and
\* result.rounds.length: either participant may win, here by the type's
\* first win condition and in its least number of rounds
RunOutcomes(entry) ==
    {[winner |-> w, winMethod |-> MATCH_TYPES[entry.matchType].winConditions[1],
      rounds |-> MATCH_TYPES[entry.matchType].rounds.min] :
        w \in Range(entry.participants)}

\* POST /ppv/:eventId/run: startEvent, then runPPV(event) is left running in
\* the background, with a channel or webhook to broadcast on
RunRoute(eventId) ==
    /\ steps < MaxPPVOps
    /\ steps' = steps + 1
    /\ startEvent(eventId)
    /\ runs' = IF ret'.error THEN runs
               ELSE (ret'.event :> [pc |-> "card", i |-> 1]) @@ runs
    /\ UNCHANGED <<now, ledgerVars, directorVars, matchVars, controllerVars>>

\* runPPV(event) resumes at a card entry: the intro and the entrances are
\* sent and simulateFullMatch is called; on an error the entry is skipped
RunSimulate(e) ==
    /\ e \in DOMAIN runs
    /\ runs[e].pc = "card"
    /\ runs[e].i <= Len(events[e].matchCard)
    /\ LET entry == events[e].matchCard[runs[e].i]
       IN IF createMatchError(entry.participants, entry.matchType).error
          THEN /\ runs' = [runs EXCEPT ![e].i = @ + 1]
               /\ UNCHANGED <<matchHistory, ret>>
          ELSE \E result \in RunOutcomes(entry) :
                 /\ matchHistory' = Append(matchHistory,
                        [id |-> now, type |-> entry.matchType,
                         participants |-> entry.participants, winner |-> result.winner,
                         winMethod |-> result.winMethod, rounds |-> result.rounds,
                         forTitle |-> entry.forTitle, timestamp |-> now])
                 /\ runs' = [runs EXCEPT ![e] = [pc |-> "post", i |-> runs[e].i,
                                                 result |-> result]]
                 /\ ret' = [op |-> "simulateFullMatch", run |-> e, error |-> FALSE]
    /\ UNCHANGED <<now, steps, ledgerVars, directorVars, activeMatch, fullMatch, rng,
                   events, scheduledEvents, completedEvents, activeEvent,
                   controllerVars>>

\* runPPV(event) resumes after postMatchToDiscord: the title changes hands
\* and recordMatchResult files the result in the active event
RunRecord(e) ==
    /\ e \in DOMAIN runs
    /\ runs[e].pc = "post"
    /\ LET entry == events[e].matchCard[runs[e].i]
           result == runs[e].result
           titleChange == entry.forTitle \in CHAMPIONSHIPS
       IN /\ titles' = IF titleChange
                        THEN awardTitle(titles, entry.forTitle, result.winner, now)
                        ELSE titles
          /\ events' = IF activeEvent = NoEvent THEN events
                        ELSE [events EXCEPT ![activeEvent].results =
                                Append(@, [order |-> entry.order, winner |-> result.winner,
                                           winMethod |-> result.winMethod,
                                           rounds |-> result.rounds,
                                           titleChange |-> titleChange, timestamp |-> now])]
          /\ ret' = [op |-> "recordMatchResult", run |-> e, error |-> FALSE,
                     event |-> activeEvent]
    /\ runs' = [runs EXCEPT ![e] = [pc |-> "card", i |-> runs[e].i + 1]]
    /\ UNCHANGED <<now, steps, directorVars, matchVars,
                   scheduledEvents, completedEvents, activeEvent,
                   controllerVars>>

\* runPPV(event) after the last card entry: completeEvent
RunComplete(e) ==
    /\ e \in DOMAIN runs
    /\ runs[e].pc = "card"
    /\ runs[e].i > Len(events[e].matchCard)
    /\ IF activeEvent = NoEvent
       THEN UNCHANGED <<events, completedEvents, activeEvent>>
       ELSE /\ events' = [events EXCEPT ![activeEvent].status = "completed"]
            /\ completedEvents' = Append(completedEvents, events'[activeEvent])
            /\ activeEvent' = NoEvent
    /\ ret' = [op |-> "completeEvent", run |-> e, error |-> activeEvent = NoEvent,
               event |-> activeEvent]
    /\ runs' = [runs EXCEPT ![e] = [pc |-> "saving", i |-> runs[e].i]]
    /\ UNCHANGED <<now, steps, ledgerVars, directorVars, matchVars, scheduledEvents,
                   controllerVars>>

\* runPPV(event) resumes after the results summary: saveState, and it returns
RunSave(e) ==
    /\ e \in DOMAIN runs
    /\ runs[e].pc = "saving"
    /\ SaveState(storyline)
    /\ runs' = [runs EXCEPT ![e].pc = "done"]
    /\ UNCHANGED <<now, steps, ret, storyline, chat, ledgerVars, matchVars,
                   events, scheduledEvents, completedEvents, activeEvent,
                   controllerVars>>

\* the order in which Object.entries lists the titles
TitleOrder == <<"wwe-championship", "intercontinental", "tag-team", "hardcore">>

FeudSlots == 5           \* feud matches on one card
CardSlots == 6           \* matches on one card

\* the feuds taken in the order of the list
sortFeuds_ListOrder(feuds) == feuds

\* [...feuds].sort((a, b) => b.intensity - a.intensity): stable, descending
RECURSIVE sortFeuds(_)
sortFeuds(feuds) ==
    IF feuds = <<>> THEN <<>>
    ELSE LET top == CHOOSE i \in 1..Len(feuds) :
                       /\ \A j \in 1..Len(feuds) : feuds[j].intensity <= feuds[i].intensity
                       /\ \A j \in 1..(i - 1) : feuds[j].intensity < feuds[i].intensity
         IN <<feuds[top]>> \o sortFeuds(RemoveAt(feuds, top))

\* a match type that takes the thresholds as strict
feudMatchType_Strict(intensity) ==
    IF intensity > 80 THEN "hell-in-a-cell"
    ELSE IF intensity > 60 THEN "no-dq" ELSE "singles"

\* the match type of a feud (intensity in tenths)
feudMatchType(intensity) ==
    IF intensity >= 80 THEN "hell-in-a-cell"
    ELSE IF intensity >= 60 THEN "no-dq" ELSE "singles"

\* the first title, in the order of getState, that c1 or c2 holds
titleAtStake(ledger, c1, c2) ==
    LET held == {i \in 1..Len(TitleOrder) : ledger[TitleOrder[i]].holder \in {c1, c2}}
    IN IF held = {} THEN Null ELSE TitleOrder[CHOOSE i \in held : \A j \in held : i <= j]

\* the loop over the sorted feuds; acc is the card and the booked set
RECURSIVE bookFeuds(_, _, _, _)
bookFeuds(acc, sorted, i, ledger) ==
    IF i > Len(sorted) \/ Len(acc.card) >= FeudSlots THEN acc
    ELSE LET c1 == sorted[i].between[1]
             c2 == sorted[i].between[2]
         IN IF c1 \in acc.booked \/ c2 \in acc.booked \/ ~getCharacter(c1) \/ ~getCharacter(c2)
            THEN bookFeuds(acc, sorted, i + 1, ledger)
            ELSE bookFeuds([card |-> Append(acc.card,
                                [order |-> Len(acc.card) + 1, participants |-> <<c1, c2>>,
                                 matchType |-> feudMatchType(sorted[i].intensity),
                                 forTitle |-> titleAtStake(ledger, c1, c2),
                                 isMainEvent |-> Len(acc.card) = 0]),
                            booked |-> acc.booked \cup {c1, c2}],
                           sorted, i + 1, ledger)

\* the loop that pairs off the unbooked active characters
RECURSIVE fillCard(_, _)
fillCard(card, unbooked) ==
    IF Len(unbooked) >= 2 /\ Len(card) < CardSlots
    THEN fillCard(Append(card, [order |-> Len(card) + 1,
                                participants |-> <<unbooked[1], unbooked[2]>>,
                                matchType |-> "singles", forTitle |-> Null,
                                isMainEvent |-> FALSE]),
                  SubSeq(unbooked, 3, Len(unbooked)))
    ELSE card

\* PPVEngine.autoBookCard
autoBookCard(feuds, activeChars, ledger) ==
    LET fromFeuds == bookFeuds([card |-> <<>>, booked |-> {}], sortFeuds(feuds), 1, ledger)
        unbooked == SelectSeq(activeChars,
                              LAMBDA c : c \notin fromFeuds.booked /\ getCharacter(c))
    IN fillCard(fromFeuds.card, unbooked)

\* POST /ppv/:eventId/auto-book
AutoBook(eventId) ==
    LET idx == FindScheduled(eventId)
        ref == scheduledEvents[idx]
        card == autoBookCard(storyline.feuds, storyline.activeCharacters, titles)
    IN
    /\ steps < MaxPPVOps
    /\ steps' = steps + 1
    /\ IF idx = 0
       THEN /\ ret' = [op |-> "autoBookCard", error |-> TRUE, event |-> NoEvent, card |-> <<>>]
            /\ UNCHANGED <<ppvVars, stateFile>>
       ELSE /\ events' = [events EXCEPT ![ref].matchCard = card]
            /\ ret' = [op |-> "autoBookCard", error |-> FALSE, event |-> ref, card |-> card]
            /\ SaveState(storyline)
            /\ UNCHANGED <<scheduledEvents, completedEvents, activeEvent, runs>>
    /\ UNCHANGED <<now, storyline, chat, ledgerVars, matchVars, controllerVars>>

\* the feud lists, active lists and ledgers handed to autoBookCard
BookedPairInputs == {<<"john-cena", "the-rock">>, <<"the-rock", "stone-cold">>,
                     <<"john-cena", "john-cena">>, <<"stone-cold", "triple-h">>}
BookedIntensityInputs == {50, 60, 80, 90}
BookedFeudInputs ==
    {[between |-> p, intensity |-> i, phase |-> "building"] :
        p \in BookedPairInputs, i \in BookedIntensityInputs}
FeudListInputs ==
    {<<>>} \cup {<<f>> : f \in BookedFeudInputs}
           \cup {p \in BookedFeudInputs \X BookedFeudInputs : p[1].between # p[2].between}
ActiveListInputs == {<<>>, <<"the-rock">>, <<"john-cena", "the-rock">>,
                     <<"stone-cold", "the-rock">>, <<"john-cena", "the-rock", "stone-cold">>}
LedgerInputs ==
    {NewTitles, awardTitle(awardTitle(NewTitles, "hardcore", "the-rock", 0),
                           "intercontinental", "the-rock", 0)}

\* ======================================================== Spawn Controller
\* CONFIG, with the defaults of the environment
MaxAgents == 10
MaxMemPerAgent == 512
MaxTotalMem == 4096
MaxSpawnsPerHour == 10
SpawnCooldown == 1       \* the 30 seconds of the cooldown, in clock readings
HourWindow == 120        \* one hour, in clock readings

\* state and tokenPool at the start of the process: agents by name,
\* tokens by position with the agent each is assigned to, the containers
\* Docker holds, and the requests that are at an await
NoSpawner ==
    [spawnedAgents |-> {}, spawnHistory |-> <<>>, lastSpawnTime |-> 0,
     tokenPool |-> <<>>, containers |-> {}, requests |-> <<>>]

\* the names the agents are given
AgentNames ==
    <<"agent-1", "agent-2", "agent-3", "agent-4", "agent-5", "agent-6",
      "agent-7", "agent-8", "agent-9", "agent-10", "agent-11">>

\* a controller with a pool of n tokens that has spawned k agents, one per
\* cooldown, the last of them one cooldown ago
AfterSpawns(k, n) ==
    [spawnedAgents |-> {AgentNames[i] : i \in 1..k},
     spawnHistory |-> [i \in 1..k |-> (i - k - 1) * SpawnCooldown],
     lastSpawnTime |-> 0 - SpawnCooldown,
     tokenPool |-> [i \in 1..n |-> IF i <= k THEN AgentNames[i] ELSE Null],
     containers |-> {AgentNames[i] : i \in 1..k},
     requests |-> <<>>]

checkRateLimits(sp, t) ==
    /\ t - sp.lastSpawnTime >= SpawnCooldown
    /\ Len(SelectSeq(sp.spawnHistory, LAMBDA u : u > t - HourWindow)) < MaxSpawnsPerHour

checkResourceLimits(sp) ==
    /\ Cardinality(sp.spawnedAgents) < MaxAgents
    /\ Cardinality(sp.spawnedAgents) * MaxMemPerAgent + MaxMemPerAgent <= MaxTotalMem

\* getAvailableToken: the position of the first token without an agent, 0
\* when there is none
getAvailableToken(sp) ==
    LET free == {i \in 1..Len(sp.tokenPool) : sp.tokenPool[i] = Null}
    IN IF free = {} THEN 0 ELSE CHOOSE i \in free : \A j \in free : i <= j

\* releaseToken: the first token assigned to the agent is freed
releaseToken(sp, name) ==
    LET held == {i \in 1..Len(sp.tokenPool) : sp.tokenPool[i] = name}
    IN IF held = {} THEN sp
       ELSE [sp EXCEPT !.tokenPool[CHOOSE i \in held : \A j \in held : i <= j] = Null]

\* POST /agents up to the first await of spawnAgent: the name must be new,
\* the rate and resource checks must pass and a token must be free; the
\* token is assigned and docker.createContainer is called. status 0 stands
\* for a response that is still to come
PostAgents(name) ==
    /\ steps < MaxSpawnOps
    /\ steps' = steps + 1
    /\ IF name \in spawner.spawnedAgents
       THEN /\ ret' = [op |-> "postAgents", name |-> name, status |-> 409]
            /\ UNCHANGED spawner
       ELSE IF ~checkRateLimits(spawner, now) \/ ~checkResourceLimits(spawner)
       THEN /\ ret' = [op |-> "postAgents", name |-> name, status |-> 429]
            /\ UNCHANGED spawner
       ELSE IF getAvailableToken(spawner) = 0
       THEN /\ ret' = [op |-> "postAgents", name |-> name, status |-> 500]
            /\ UNCHANGED spawner
       ELSE /\ ret' = [op |-> "postAgents", name |-> name, status |-> 0]
            /\ spawner' = [spawner EXCEPT
                              !.tokenPool[getAvailableToken(spawner)] = name,
                              !.requests = Append(@, [op |-> "spawn", name |-> name,
                                                      pc |-> "creating"])]
    /\ UNCHANGED <<now, topics, ledgerVars, ppvVars, directorVars, matchVars>>

\* docker.createContainer of request r returns: Docker refuses a name it
\* already holds, and the error ends the request with status 500; otherwise
\* the container exists and container.start is called
ContainerCreated(r) ==
    /\ r \in 1..Len(spawner.requests)
    /\ spawner.requests[r].op = "spawn"
    /\ spawner.requests[r].pc = "creating"
    /\ IF spawner.requests[r].name \in spawner.containers
       THEN spawner' = [spawner EXCEPT !.requests[r].pc = "failed"]
       ELSE spawner' = [spawner EXCEPT !.requests[r].pc = "starting",
                                       !.containers = @ \cup {spawner.requests[r].name}]
    /\ UNCHANGED <<now, steps, ret, topics, ledgerVars, ppvVars, directorVars, matchVars>>

\* container.start of request r returns: the agent is entered in
\* spawnedAgents, the spawn is noted and the response is 201
ContainerStarted(r) ==
    /\ r \in 1..Len(spawner.requests)
    /\ spawner.requests[r].op = "spawn"
    /\ spawner.requests[r].pc = "starting"
    /\ spawner' = [spawner EXCEPT !.requests[r].pc = "done",
                                  !.spawnedAgents = @ \cup {spawner.requests[r].name},
                                  !.spawnHistory = Append(@, now),
                                  !.lastSpawnTime = now]
    /\ ret' = [op |-> "postAgents", name |-> spawner.requests[r].name, status |-> 201]
    /\ UNCHANGED <<now, steps, topics, ledgerVars, ppvVars, directorVars, matchVars>>

\* DELETE /agents/:name up to the first await of killAgent
DeleteAgent(name) ==
    /\ steps < MaxSpawnOps
    /\ steps' = steps + 1
    /\ IF name \notin spawner.spawnedAgents
       THEN /\ ret' = [op |-> "deleteAgent", name |-> name, status |-> 404]
            /\ UNCHANGED spawner
       ELSE /\ ret' = [op |-> "deleteAgent", name |-> name, status |-> 0]
            /\ spawner' = [spawner EXCEPT
                              !.requests = Append(@, [op |-> "kill", name |-> name,
                                                      pc |-> "stopping"])]
    /\ UNCHANGED <<now, topics, ledgerVars, ppvVars, directorVars, matchVars>>

\* killAgent of request r after container.stop and container.remove: the
\* token is released and the agent leaves spawnedAgents
AgentKilled(r) ==
    /\ r \in 1..Len(spawner.requests)
    /\ spawner.requests[r].op = "kill"
    /\ spawner.requests[r].pc = "stopping"
    /\ spawner' = [releaseToken(spawner, spawner.requests[r].name) EXCEPT
                      !.requests[r].pc = "done",
                      !.containers = @ \ {spawner.requests[r].name},
                      !.spawnedAgents = @ \ {spawner.requests[r].name}]
    /\ ret' = [op |-> "deleteAgent", name |-> spawner.requests[r].name, status |-> 200]
    /\ UNCHANGED <<now, steps, topics, ledgerVars, ppvVars, directorVars, matchVars>>

\* =================================================== Conversation Starters
\* Object.keys(TOPIC_CATEGORIES), and the number of topics of each category;
\* a topic is written as its category and its place in it
TOPIC_CATEGORIES == <<"philosophical", "hypothetical", "creative", "debate", "meta">>
TopicsPerCategory == 8

\* allTopics, in the order the constructor flattens them
AllTopics ==
    [n \in 1..(Len(TOPIC_CATEGORIES) * TopicsPerCategory) |->
        <<TOPIC_CATEGORIES[((n - 1) \div TopicsPerCategory) + 1],
          ((n - 1) % TopicsPerCategory) + 1>>]

\* constructor; returned keeps every topic ever handed out
NewStarter == [usedTopics |-> {}, currentCategoryIdx |-> 0, returned |-> {}]

\* getNextTopic for the reading r of Math.random(): the starter afterwards
\* and the topic returned
RECURSIVE getNextTopic(_, _, _)
getNextTopic(st, category, r) ==
    LET CategoryTopics(c) == SelectSeq(AllTopics, LAMBDA t : t[1] = c)
        Unused(s, list) == SelectSeq(list, LAMBDA t : t \notin s.usedTopics)
        reset == IF Cardinality(st.usedTopics) >= Len(AllTopics)
                 THEN [st EXCEPT !.usedTopics = {}] ELSE st
        named == category # Null /\ category \in Range(TOPIC_CATEGORIES)
        cat == TOPIC_CATEGORIES[(reset.currentCategoryIdx % Len(TOPIC_CATEGORIES)) + 1]
        turned == IF named THEN reset ELSE [reset EXCEPT !.currentCategoryIdx = @ + 1]
        pool == IF named THEN Unused(reset, CategoryTopics(category))
                ELSE IF Unused(reset, CategoryTopics(cat)) # <<>>
                THEN Unused(reset, CategoryTopics(cat))
                ELSE Unused(reset, AllTopics)
        topic == pool[Floor(r, Len(pool)) + 1]
    IN IF pool = <<>>
       THEN getNextTopic([turned EXCEPT !.usedTopics = {}], category, r)
       ELSE [st |-> [turned EXCEPT !.usedTopics = @ \cup {topic}], topic |-> topic]

\* GET /topics
GetNextTopic(category, r) ==
    /\ steps < MaxTopicOps
    /\ steps' = steps + 1
    /\ LET next == getNextTopic(topics, category, r)
       IN /\ topics' = [next.st EXCEPT !.returned = @ \cup {next.topic}]
          /\ ret' = [op |-> "getNextTopic", category |-> category, topic |-> next.topic]
    /\ UNCHANGED <<now, spawner, ledgerVars, ppvVars, directorVars, matchVars>>

FreshController ==
    /\ spawner = NoSpawner
    /\ topics = NewStarter

\* ========================================================= specifications
\* A ledger that has already seen k title changes of the WWE championship:
\* k + 1 awardTitle calls, the holder alternating, all within one clock reading.
RECURSIVE AfterAwards(_)
AfterAwards(k) ==
    IF k = 0 THEN awardTitle(NewTitles, "wwe-championship", "john-cena", 0)
    ELSE awardTitle(AfterAwards(k - 1), "wwe-championship",
                    IF k % 2 = 1 THEN "the-rock" ELSE "john-cena", 0)

LedgerStarts == {NewTitles, AfterAwards(HistoryCap - 1), AfterAwards(HistoryCap)}

InitLedger ==
    /\ now = 0
    /\ steps = 0
    /\ ret = NoRet
    /\ FreshController
    /\ titles \in LedgerStarts
    /\ FreshPPV
    /\ FreshDirector
    /\ FreshMatchEngine

NextLedger ==
    \/ Tick
    \/ \E t \in TitleInputs, c \in HolderInputs : AwardTitle(t, c)
    \/ \E t \in TitleInputs : VacateTitle(t)
    \/ \E t \in TitleInputs : RecordDefense(t)

SpecLedger == InitLedger /\ [][NextLedger]_vars

InitPPV ==
    /\ now = 0
    /\ steps = 0
    /\ ret = NoRet
    /\ FreshController
    /\ titles = NewTitles
    /\ events = <<>>
    /\ scheduledEvents = <<>>
    /\ completedEvents \in {<<>>, AfterShows(CompletedCap)}
    /\ activeEvent = NoEvent
    /\ runs = <<>>
    /\ FreshDirector
    /\ FreshMatchEngine

NextPPV ==
    \/ Tick
    \/ \E t \in TemplateInputs, c \in SuppliedCards : ScheduleEvent(t, c)
    \/ \E e \in EventIdInputs, m \in CardEntryInputs : AddMatch(e, m)
    \/ \E e \in EventIdInputs : StartEvent(e)
    \/ \E o \in 1..MaxCard, r \in ResultInputs : RecordMatchResult(o, r)
    \/ CompleteEvent

SpecPPV == InitPPV /\ [][NextPPV]_vars

InitBook ==
    /\ now = 0
    /\ steps = 0
    /\ ret = NoRet
    /\ FreshController
    /\ titles \in LedgerInputs
    /\ FreshPPV
    /\ \E f \in FeudListInputs, a \in ActiveListInputs :
          storyline = [NewStoryline EXCEPT !.feuds = f, !.activeCharacters = a]
    /\ stateFile = NoFile
    /\ chat = NoChat
    /\ FreshMatchEngine

NextBook ==
    \/ \E t \in TemplateInputs : ScheduleEvent(t, <<>>)
    \/ \E e \in EventIdInputs : AutoBook(e)

SpecBook == InitBook /\ [][NextBook]_vars

InitRun ==
    /\ now = 0
    /\ steps = 0
    /\ ret = NoRet
    /\ FreshController
    /\ titles = NewTitles
    /\ FreshPPV
    /\ FreshDirector
    /\ FreshMatchEngine

NextRun ==
    \/ \E t \in TemplateInputs, c \in RunCards : ScheduleEvent(t, c)
    \/ \E e \in EventIdInputs : RunRoute(e)
    \/ \E e \in 1..Len(events) : RunSimulate(e)
    \/ \E e \in 1..Len(events) : RunRecord(e)
    \/ \E e \in 1..Len(events) : RunComplete(e)
    \/ \E e \in 1..Len(events) : RunSave(e)

SpecRun == InitRun /\ [][NextRun]_vars

\* POST /championships/award: awardTitle and, unless the title is unknown
\* (400), storyline.championshipData is set and saveState writes the file
PostAward(titleId, characterId) ==
    /\ steps < MaxLedgerOps
    /\ steps' = steps + 1
    /\ IF titleId \notin CHAMPIONSHIPS
       THEN /\ ret' = [op |-> "awardTitle", titleId |-> titleId, isNull |-> TRUE,
                       newChampion |-> Null, previousChampion |-> Null]
            /\ UNCHANGED <<titles, stateFile>>
       ELSE /\ titles' = awardTitle(titles, titleId, characterId, now)
            /\ SaveState(storyline)
            /\ ret' = [op |-> "awardTitle", titleId |-> titleId, isNull |-> FALSE,
                       newChampion |-> characterId,
                       previousChampion |-> titles[titleId].holder]
    /\ UNCHANGED <<now, ppvVars, storyline, chat, matchVars, controllerVars>>

\* POST /ppv/schedule: scheduleEvent with an empty card and, unless the
\* template is unknown (400), storyline.ppvData is set and saveState writes
PostSchedule(templateId) ==
    /\ steps < MaxLedgerOps
    /\ steps' = steps + 1
    /\ IF templateId \notin PPV_TEMPLATES
       THEN /\ ret' = [op |-> "scheduleEvent", error |-> TRUE, event |-> NoEvent]
            /\ UNCHANGED <<ppvVars, stateFile>>
       ELSE /\ Len(events) < MaxEvents
            /\ events' = Append(events,
                   [id |-> EventId(now), templateId |-> templateId, status |-> "scheduled",
                    matchCard |-> <<>>, results |-> <<>>])
            /\ scheduledEvents' = Append(scheduledEvents, Len(events) + 1)
            /\ SaveState(storyline)
            /\ ret' = [op |-> "scheduleEvent", error |-> FALSE, event |-> Len(events) + 1]
            /\ UNCHANGED <<completedEvents, activeEvent, runs>>
    /\ UNCHANGED <<now, ledgerVars, storyline, chat, matchVars, controllerVars>>

\* main() of a new process: the engines are as constructed, loadState reads
\* the file into the storyline, and each loadFrom runs only if loadState has
\* put its data (championshipData, matchData, ppvData) on the storyline
Main ==
    /\ steps < MaxLedgerOps
    /\ steps' = steps + 1
    /\ LET loaded == loadState(stateFile)
           has(field) == field \in DOMAIN loaded
       IN /\ storyline' = loaded
          /\ titles' = IF has("championshipData") THEN loaded.championshipData
                       ELSE NewTitles
          /\ matchHistory' = IF has("matchData")
                             THEN SliceLast(loaded.matchData.matchHistory, 50)
                             ELSE <<>>
          /\ IF has("ppvData")
             THEN /\ scheduledEvents' = loaded.ppvData.scheduledEvents
                  /\ completedEvents' = SliceLast(loaded.ppvData.completedEvents, 20)
                  /\ events' = events
             ELSE /\ scheduledEvents' = <<>>
                  /\ completedEvents' = <<>>
                  /\ events' = <<>>
    /\ activeEvent' = NoEvent
    /\ runs' = <<>>
    /\ activeMatch' = NoMatch
    /\ fullMatch' = NoCall
    /\ chat' = NoChat
    /\ ret' = [op |-> "main"]
    /\ UNCHANGED <<now, stateFile, rng, controllerVars>>

NextRestart ==
    \/ \E t \in TitleInputs, c \in HolderInputs : PostAward(t, c)
    \/ \E t \in TemplateInputs : PostSchedule(t)
    \/ Main

SpecRestart == InitRun /\ [][NextRestart]_vars

InitDirector ==
    /\ now = 0
    /\ steps = 0
    /\ ret = NoRet
    /\ FreshController
    /\ titles = NewTitles
    /\ FreshPPV
    /\ storyline \in DirectorStarts
    /\ stateFile = NoFile
    /\ chat = NoChat
    /\ FreshMatchEngine

EngineStep ==
    \/ Tick
    \/ \E m \in MentionInputs, a \in AuthorInputs : DecideResponders(m, a)
    \/ \E c \in SurpriseInputs : SurpriseRoute(c)
    \/ \E p \in FeudPairInputs, i \in IntensityInputs : CreateFeud(p[1], p[2], i)
    \/ \E c \in RosterInputs : AddCharacterToWings(c)
    \/ \E c \in RosterInputs : DeactivateCharacter(c)

NextDirector ==
    \/ EngineStep
    \/ \E c \in RosterInputs, a \in BOOLEAN : ToggleCharacter(c, a)
    \/ Restart

SpecDirector == InitDirector /\ [][NextDirector]_vars

\* a director with john-cena and the-rock active and stone-cold in the wings
\* that has handled eight messages nobody answered
InitChat ==
    /\ now = 0
    /\ steps = 0
    /\ ret = NoRet
    /\ FreshController
    /\ titles = NewTitles
    /\ FreshPPV
    /\ storyline = [QuietStart(8) EXCEPT !.waitingInTheWings = <<"stone-cold">>]
    /\ stateFile = NoFile
    /\ chat = NoChat
    /\ FreshMatchEngine

NextChat ==
    \/ \E a \in AuthorInputs : MessageCreate({}, a)
    \/ \E h \in 1..Len(chat.handlers) : StartGeneration(h)
    \/ \E h \in 1..Len(chat.handlers), text \in BOOLEAN : Generated(h, text)
    \/ \E h \in 1..Len(chat.handlers), sent \in BOOLEAN, chant \in BOOLEAN :
          Publish(h, sent, chant)
    \/ \E h \in 1..Len(chat.handlers), sent \in BOOLEAN : CrowdChant(h, sent)

SpecChat == InitChat /\ [][NextChat]_vars

NextStandalone ==
    \/ EngineStep
    \/ \E c \in RosterInputs, a \in BOOLEAN : ToggleCharacterStandalone(c, a)

SpecStandalone == InitDirector /\ [][NextStandalone]_vars

\* a standalone director whose POST /characters has made stone-cold active
InitActivated ==
    /\ now = 0
    /\ steps = 0
    /\ ret = NoRet
    /\ FreshController
    /\ titles = NewTitles
    /\ FreshPPV
    /\ storyline = toggleCharacterStandalone(NewStoryline, "stone-cold", TRUE)
    /\ stateFile = NoFile
    /\ chat = NoChat
    /\ FreshMatchEngine

SpecActivated == InitActivated /\ [][NextStandalone]_vars

HistoryLimit == 50

\* a match history loaded from a save of k past matches
PastMatches(k) ==
    [i \in 1..k |-> [id |-> 0 - i, type |-> "singles",
                     participants |-> <<"john-cena", "the-rock">>,
                     winner |-> IF i % 2 = 0 THEN "john-cena" ELSE "the-rock",
                     winMethod |-> "pinfall", rounds |-> 5, forTitle |-> Null,
                     timestamp |-> 0 - i]]

InitMatch ==
    /\ now = 0
    /\ steps = 0
    /\ ret = NoRet
    /\ FreshController
    /\ titles = NewTitles
    /\ FreshPPV
    /\ FreshDirector
    /\ activeMatch = NoMatch
    /\ matchHistory \in {<<>>, PastMatches(HistoryLimit)}
    /\ fullMatch = NoCall
    /\ rng \in RandomStreams

NextMatch ==
    \/ \E b \in BookingInputs, o \in TitleOptionInputs : CreateMatch(b[2], b[1], o)
    \/ SimulateRound
    \/ \E b \in BookingInputs, o \in TitleOptionInputs : SimulateFullMatch(b[2], b[1], o)
    \/ FullMatchRound
    \/ FullMatchReturn

SpecMatch == InitMatch /\ [][NextMatch]_vars

\* the readings a round of a rumble is followed under: a reversal of the
\* middle phase, a reversal of the late phase, a round the target has the
\* better of and a round the actor has the better of
ValveStreams ==
    {<<996, 300, 996>>, <<996, 200, 996>>, <<0, 0, 300>>, <<0, 996, 0>>}

\* Math.random() between two rounds of simulateFullMatch: the readings of
\* the next round do not depend on those of the rounds before
Reseed(streams) ==
    /\ fullMatch.running
    /\ ~fullMatch.broke
    /\ ~Truthy(activeMatch.winner)
    /\ rng' \in streams
    /\ UNCHANGED <<now, steps, ret, activeMatch, matchHistory, fullMatch,
                   ledgerVars, ppvVars, directorVars, controllerVars>>

\* the match followed round by round: a royal rumble of a lone entrant
ValveBookings ==
    {<<"royal-rumble", <<"the-rock">>>>}

InitValve ==
    /\ now = 0
    /\ steps = 0
    /\ ret = NoRet
    /\ FreshController
    /\ titles = NewTitles
    /\ FreshPPV
    /\ FreshDirector
    /\ activeMatch = NoMatch
    /\ matchHistory = <<>>
    /\ fullMatch = NoCall
    /\ rng \in ValveStreams

NextValve ==
    \/ \E b \in ValveBookings : SimulateFullMatch(b[2], b[1], Null)
    \/ Reseed(ValveStreams)
    \/ FullMatchRound
    \/ FullMatchReturn

SpecValve == InitValve /\ [][NextValve]_vars

\* the matches of two that are followed for the part the list order plays,
\* and a match whose list names one character twice
DuelBookings ==
    {<<"singles", <<"john-cena", "the-rock">>>>,
     <<"no-dq", <<"the-rock", "stone-cold">>>>,
     <<"steel-cage", <<"stone-cold", "john-cena">>>>,
     <<"singles", <<"the-rock", "the-rock">>>>}

NextDuel ==
    \/ \E b \in DuelBookings : CreateMatch(b[2], b[1], Null)
    \/ SimulateRound
    \/ \E b \in DuelBookings : SimulateFullMatch(b[2], b[1], Null)
    \/ FullMatchRound
    \/ FullMatchReturn

SpecDuel == InitValve /\ [][NextDuel]_vars

\* the readings a singles match is followed under between its rounds: they
\* bring a match of four rounds to level final scores
TieStreams == {<<0, 0, 400>>, <<200, 600, 800>>}

NextTie ==
    \/ SimulateFullMatch(<<"john-cena", "the-rock">>, "singles", Null)
    \/ Reseed(TieStreams)
    \/ FullMatchRound
    \/ FullMatchReturn

SpecTie == InitValve /\ [][NextTie]_vars

\* a controller with seven agents running and a pool of eleven tokens
InitSpawn ==
    /\ now = 0
    /\ steps = 0
    /\ ret = NoRet
    /\ spawner = AfterSpawns(7, 11)
    /\ topics = NewStarter
    /\ titles = NewTitles
    /\ FreshPPV
    /\ FreshDirector
    /\ FreshMatchEngine

SpawnNames == {"agent-1", "agent-8", "agent-9", "agent-10", "agent-11"}

NextSpawn ==
    \/ Tick
    \/ \E name \in SpawnNames : PostAgents(name)
    \/ \E r \in 1..Len(spawner.requests) : ContainerCreated(r)
    \/ \E r \in 1..Len(spawner.requests) : ContainerStarted(r)
    \/ \E name \in SpawnNames : DeleteAgent(name)
    \/ \E r \in 1..Len(spawner.requests) : AgentKilled(r)

SpecSpawn == InitSpawn /\ [][NextSpawn]_vars

CategoryInputs == {Null, "debate", "sports"}
TopicDraws == {0, 996}

NextTopics == \E category \in CategoryInputs, r \in TopicDraws : GetNextTopic(category, r)

SpecTopics == InitSpawn /\ [][NextTopics]_vars

\* ------------------------------------------------------- ledger properties

\* a step that is a call of awardTitle on a known title that had a holder
AwardOnHeldTitle ==
    /\ steps' = steps + 1
    /\ ret'.op = "awardTitle"
    /\ ~ret'.isNull
    /\ titles[ret'.titleId].holder # Null

\* C5: every awardTitle on a held title appends the outgoing reign (holder,
\* wonAt and defenses as they were before the call) as the newest history
\* entry, keeps the older entries in order (dropping only from the front),
\* installs the new holder with defense count 0, and returns the outgoing
\* holder as previousChampion.
C5_AwardClosesReign ==
    [][AwardOnHeldTitle =>
        LET id == ret'.titleId
            old == titles[id]
            new == titles'[id]
        IN /\ Len(new.history) >= 1
           /\ Last(new.history).holder = old.holder
           /\ Last(new.history).wonAt = old.wonAt
           /\ Last(new.history).defenses = old.defenses
           /\ Last(new.history).lostAt = now
           /\ \E k \in 0..Len(old.history) :
                 SubSeq(new.history, 1, Len(new.history) - 1)
                    = SubSeq(old.history, k + 1, Len(old.history))
           /\ new.holder = ret'.newChampion
           /\ new.defenses = 0
           /\ ret'.previousChampion = old.holder]_vars

\* C5 witness: an awardTitle has displaced a champion who had defended the
\* title, and the closed reign carries that defense count.
C5_Witness ==
    /\ ret.op = "awardTitle"
    /\ ~ret.isNull
    /\ ret.previousChampion # Null
    /\ titles[ret.titleId].history # <<>>
    /\ Last(titles[ret.titleId].history).defenses > 0
    /\ titles[ret.titleId].defenses = 0

\* C10 (as claimed): no title's history ever holds more than 20 entries.
C10_HistoryAtMostCap ==
    \A id \in CHAMPIONSHIPS : Len(titles[id].history) <= HistoryCap

\* C11: a title's defense count changes only by +1 through recordDefense on
\* a held title, or to 0 through awardTitle or vacateTitle of that title, and
\* recordDefense on a vacant or unknown title changes nothing
C11_DefenseCountSteps ==
    [][/\ \A id \in CHAMPIONSHIPS :
            titles'[id].defenses # titles[id].defenses =>
                \/ /\ titles'[id].defenses = titles[id].defenses + 1
                   /\ ret'.op = "recordDefense"
                   /\ ret'.titleId = id
                   /\ titles[id].holder # Null
                \/ /\ titles'[id].defenses = 0
                   /\ ret'.op \in {"awardTitle", "vacateTitle"}
                   /\ ret'.titleId = id
       /\ (/\ steps' = steps + 1
           /\ ret'.op = "recordDefense"
           /\ (ret'.titleId \notin CHAMPIONSHIPS \/ titles[ret'.titleId].holder = Null))
          => titles' = titles]_vars

\* C11 witness: a reign that had counted a defense has been closed by an award
\* that set the count back to 0
C11_Witness ==
    /\ ret.op = "awardTitle"
    /\ ~ret.isNull
    /\ titles[ret.titleId].defenses = 0
    /\ Len(titles[ret.titleId].history) > 0
    /\ Last(titles[ret.titleId].history).defenses > 0

\* C12: vacateTitle on a held title sets the holder to null and appends
\* exactly one history entry, for the outgoing holder and with vacated = true;
\* the next awardTitle on the title reports previousChampion = null and
\* appends no history entry
C12_VacateThenAward ==
    [][/\ (/\ steps' = steps + 1
           /\ ret'.op = "vacateTitle"
           /\ ret'.titleId \in CHAMPIONSHIPS
           /\ titles[ret'.titleId].holder # Null)
          => LET old == titles[ret'.titleId]
                 new == titles'[ret'.titleId]
             IN /\ new.holder = Null
                /\ Len(new.history) = Len(old.history) + 1
                /\ SubSeq(new.history, 1, Len(old.history)) = old.history
                /\ Last(new.history).holder = old.holder
                /\ Last(new.history).vacated
       /\ (/\ steps' = steps + 1
           /\ ret'.op = "awardTitle"
           /\ ret'.titleId \in CHAMPIONSHIPS
           /\ titles[ret'.titleId].holder = Null)
          => LET old == titles[ret'.titleId]
                 new == titles'[ret'.titleId]
             IN /\ ret'.previousChampion = Null
                /\ Len(new.history) <= Len(old.history)
                /\ new.history = SliceLast(old.history, Len(new.history))]_vars

\* C12 witness: a vacated title has been awarded again
C12_Witness ==
    /\ ret.op = "awardTitle"
    /\ ~ret.isNull
    /\ ret.previousChampion = Null
    /\ Len(titles[ret.titleId].history) > 0
    /\ Last(titles[ret.titleId].history).vacated

AwardSucceeds ==
    /\ steps' = steps + 1
    /\ ret'.op = "awardTitle"
    /\ ~ret'.isNull

\* C13 as stated: right after awardTitle(t, c) succeeds getTitlesForCharacter(c)
\* returns exactly t and getTitlesForCharacter of the displaced holder nothing
C13_ExactlyTheAwardedTitle ==
    [][AwardSucceeds =>
          /\ getTitlesForCharacter(titles', ret'.newChampion) = {ret'.titleId}
          /\ titles[ret'.titleId].holder # Null =>
                getTitlesForCharacter(titles', titles[ret'.titleId].holder) = {}]_vars

\* C13 amended: right after awardTitle(t, c) succeeds getTitlesForCharacter(c)
\* returns t together with the other titles c holds, so exactly t when c
\* holds no other, and getTitlesForCharacter of a displaced holder other
\* than c returns the titles that holder had without t, so none when t was
\* the only one
C13_AwardedTitleJoinsHeld ==
    [][AwardSucceeds =>
          LET t == ret'.titleId
              c == ret'.newChampion
              d == titles[t].holder
          IN /\ getTitlesForCharacter(titles', c) =
                    {id \in CHAMPIONSHIPS : titles[id].holder = c} \cup {t}
             /\ (d # Null /\ d # c) =>
                    getTitlesForCharacter(titles', d) =
                        {id \in CHAMPIONSHIPS : titles[id].holder = d} \ {t}]_vars

\* C13 witness: a champion of one title has just taken a second title from
\* another holder
C13_Witness ==
    /\ ret.op = "awardTitle"
    /\ ~ret.isNull
    /\ ret.previousChampion # Null
    /\ ret.previousChampion # ret.newChampion
    /\ Cardinality(getTitlesForCharacter(titles, ret.newChampion)) = 2
    /\ getTitlesForCharacter(titles, ret.previousChampion) = {}

\* ---------------------------------------------------------- PPV properties

InProgress == {e \in 1..Len(events) : events[e].status = "in-progress"}

\* C1 (as claimed): at most one event has status in-progress, and it is the
\* event held in the active-event slot.
C1_SingleInProgress ==
    /\ Cardinality(InProgress) <= 1
    /\ \A e \in InProgress : activeEvent = e

\* C18: the status of an event changes only from scheduled to in-progress,
\* by startEvent, and from in-progress to completed, by completeEvent; no
\* event is dropped, and an event that is still scheduled stays on the
\* scheduled list, so nothing cancels it.
C18_StatusForward ==
    [][/\ Len(events') >= Len(events)
       /\ \A e \in 1..Len(events) :
             events'[e].status # events[e].status =>
                \/ /\ events[e].status = "scheduled"
                   /\ events'[e].status = "in-progress"
                   /\ ret'.op = "startEvent"
                \/ /\ events[e].status = "in-progress"
                   /\ events'[e].status = "completed"
                   /\ ret'.op = "completeEvent"
       /\ \A e \in 1..Len(events') :
             /\ events'[e].status \in {"scheduled", "in-progress", "completed"}
             /\ events'[e].status = "scheduled" => e \in Range(scheduledEvents')
       /\ \A i \in 1..Len(completedEvents') : completedEvents'[i].status = "completed"]_vars

\* an event went through all three statuses and a later startEvent of its
\* id left it completed
C18_Witness ==
    /\ ret.op = "startEvent"
    /\ \E e \in 1..Len(events) : events[e].status = "completed" /\ events[e].id = ret.eventId

\* C19: startEvent of an id that is not on the scheduled list, or of an
\* event whose card is empty, returns an error and leaves the scheduled
\* list, the active slot, the completed list and every event's status as
\* they were.
C19_FailedStartChangesNothing ==
    [][(/\ steps' = steps + 1
        /\ ret'.op = "startEvent"
        /\ LET named == {i \in 1..Len(scheduledEvents) :
                            events[scheduledEvents[i]].id = ret'.eventId}
           IN \/ named = {}
              \/ \E i \in named : /\ \A j \in named : i <= j
                                   /\ events[scheduledEvents[i]].matchCard = <<>>)
          => /\ ret'.error
             /\ scheduledEvents' = scheduledEvents
             /\ activeEvent' = activeEvent
             /\ completedEvents' = completedEvents
             /\ events' = events]_vars

\* startEvent refused an event that is scheduled with an empty card while
\* another event was running
C19_Witness ==
    /\ ret.op = "startEvent"
    /\ ret.error
    /\ activeEvent # NoEvent
    /\ \E i \in 1..Len(scheduledEvents) :
          /\ events[scheduledEvents[i]].id = ret.eventId
          /\ events[scheduledEvents[i]].matchCard = <<>>
          /\ events[scheduledEvents[i]].status = "scheduled"

\* C20 (as claimed): completeEvent appends the active event to the completed
\* list and empties the active slot, and the completed list never holds
\* more than 20 events.
C20_CompletedAtMostCap ==
    [][/\ (steps' = steps + 1 /\ ret'.op = "completeEvent" /\ activeEvent # NoEvent)
            => /\ activeEvent' = NoEvent
               /\ Len(completedEvents') = Len(completedEvents) + 1
               /\ SubSeq(completedEvents', 1, Len(completedEvents)) = completedEvents
               /\ Last(completedEvents').id = events[activeEvent].id
               /\ Last(completedEvents').status = "completed"
       /\ Len(completedEvents') <= 20]_vars

\* C22 (as claimed): the match history never holds more than 50 matches.
C22_HistoryAtMostLimit == Len(matchHistory) <= 50

\* C23: a simulateFullMatch call that returns a match has appended exactly
\* one record to the end of the match history, with the participants, the
\* winner and the win method of the returned match and the number of the
\* returned rounds, has left the earlier records as they were, and leaves
\* no live match.
C23_OneSummaryPerMatch ==
    [][(ret'.op = "simulateFullMatch" /\ ~ret'.error /\ ~ret'.pending /\ fullMatch.running)
          => /\ Len(matchHistory') = Len(matchHistory) + 1
             /\ SubSeq(matchHistory', 1, Len(matchHistory)) = matchHistory
             /\ Last(matchHistory').participants = ret'.match.participants
             /\ Last(matchHistory').winner = ret'.match.winner
             /\ Last(matchHistory').winMethod = ret'.match.winMethod
             /\ Last(matchHistory').rounds = ret'.rounds
             /\ activeMatch' = NoMatch]_vars

\* a match with a winner was returned and filed behind the earlier records
C23_Witness ==
    /\ ret.op = "simulateFullMatch"
    /\ ~ret.error
    /\ ~ret.pending
    /\ Len(matchHistory) > 1
    /\ Last(matchHistory).winner = ret.match.winner
    /\ Last(matchHistory).winner \in Range(ret.match.participants)
    /\ matchHistory[1] = PastMatches(HistoryLimit)[1]
    /\ activeMatch = NoMatch

\* C25 (as claimed): the storyline history the director holds in memory has
\* at most 100 beat records.
C25_StoryAtMostLimit == Len(storyline.storylineHistory) <= 100

\* the log of one handler: a generation, then its end (published, send
\* failed, or skipped), for responder 1, then responder 2, and so on
HandledInOrder(hr) ==
    \A k \in 1..Len(hr.log) :
        /\ hr.log[k].i = (k + 1) \div 2
        /\ hr.log[k].i <= Len(hr.responders)
        /\ IF k % 2 = 1 THEN hr.log[k].kind = "generate"
           ELSE hr.log[k].kind \in {"published", "unsent", "skipped"}

\* C26: for one inbound message the responders are handled one at a time in
\* the order of the responder list: a generation starts only when the one
\* before has ended with its text published or the responder skipped; a
\* responder whose generation brings no text is skipped and the handler goes
\* on to the next one, so a handler that ends its loop has handled them all.
C26_OneAtATimeInOrder ==
    [][\A h \in 1..Len(chat'.handlers) :
          LET hr == chat'.handlers[h]
          IN /\ HandledInOrder(hr)
             /\ hr.pc = "done" => Len(hr.log) = 2 * Len(hr.responders)
             /\ (h <= Len(chat.handlers) /\ Len(hr.log) = Len(chat.handlers[h].log) + 1
                   /\ Last(hr.log).kind = "skipped" /\ Last(hr.log).i < Len(hr.responders))
                 => (hr.pc = "delay" /\ hr.i = chat.handlers[h].i + 1)]_vars

\* a message with two responders has been handled: the first responder's
\* generation failed and the second one's text was published after it
C26_Witness ==
    /\ Len(chat.handlers) > 0
    /\ chat.handlers[1].pc = "done"
    /\ Len(chat.handlers[1].responders) = 2
    /\ [k \in 1..Len(chat.handlers[1].log) |-> chat.handlers[1].log[k].kind]
          = <<"generate", "skipped", "generate", "published">>

\* a match of two different participants that has no winner yet
TwoLive ==
    /\ activeMatch.exists
    /\ Len(activeMatch.participants) = 2
    /\ activeMatch.participants[1] # activeMatch.participants[2]
    /\ ~Truthy(activeMatch.winner)

\* the match with its participants listed the other way round
Swapped(match) ==
    [match EXCEPT !.participants = <<match.participants[2], match.participants[1]>>]

\* the other participant of a two-participant match; what is no participant
\* is left as it is
Other(match, c) ==
    IF c = match.participants[1] THEN match.participants[2]
    ELSE IF c = match.participants[2] THEN match.participants[1]
    ELSE c

\* the match with the two participants in each other's place throughout
Exchanged(match) ==
    [match EXCEPT !.participants = <<match.participants[2], match.participants[1]>>,
                  !.momentum = [c \in DOMAIN match.momentum |-> match.momentum[Other(match, c)]],
                  !.damage = [c \in DOMAIN match.damage |-> match.damage[Other(match, c)]],
                  !.winner = Other(match, match.winner)]

\* the readings of the next round, with c as the reading of the shuffle
RoundReadings(c) == [k \in 1..7 |-> IF k = 1 THEN c ELSE Random(rng, k)]

\* C27: in a match of two participants the place in the list gives no
\* advantage. In every round either participant can be the actor; the round
\* played with the two participants in each other's place and the same
\* readings is the same round with the roles exchanged (actor, target,
\* momentum, damage, winner); and the round played on the list turned round
\* with the shuffle falling the other way is the very same round, so what
\* the first-listed participant can reach the second-listed can reach too.
C27_NoPositionBias ==
    TwoLive =>
        /\ \A c \in RandomInputs :
              LET here == simulateRound(activeMatch, RoundReadings(c))
                  turned == simulateRound(Exchanged(activeMatch), RoundReadings(c))
                  mirrored == simulateRound(Swapped(activeMatch),
                                            RoundReadings((c + 500) % 1000))
              IN /\ turned.match = Exchanged(here.match)
                 /\ turned.round.actor = Other(activeMatch, here.round.actor)
                 /\ turned.round.target = Other(activeMatch, here.round.target)
                 /\ turned.round.winner = Other(activeMatch, here.round.winner)
                 /\ turned.round.winMethod = here.round.winMethod
                 /\ mirrored.match = Swapped(here.match)
                 /\ mirrored.round = here.round
        /\ \A p \in 1..2 : \E c \in RandomInputs :
              simulateRound(activeMatch, RoundReadings(c)).round.actor
                  = activeMatch.participants[p]

\* a match of two in which the second-listed participant has just been the
\* actor of a round and is ahead on momentum
C27_Witness ==
    /\ TwoLive
    /\ ret.op = "simulateRound"
    /\ ~ret.round.isNull
    /\ ret.round.actor = activeMatch.participants[2]
    /\ activeMatch.momentum[activeMatch.participants[2]]
          > activeMatch.momentum[activeMatch.participants[1]]

\* C28 (as claimed): whatever way spawn requests and kills interleave, the
\* controller never tracks more than MAX_AGENTS spawned agents (the agents
\* are the keys of a map, so no two of them share a name).
C28_AgentLimit == Cardinality(spawner.spawnedAgents) <= MaxAgents

\* C29 (as claimed): getNextTopic returns no topic a second time before
\* every topic of the catalog has been returned once.
C29_NoRepeatBeforeAllUsed ==
    [][(steps' = steps + 1 /\ ret'.op = "getNextTopic" /\ ret'.topic \in topics.returned)
          => topics.returned = Range(AllTopics)]_vars

\* C24 (as claimed): a match that has a winner has a win method that is one
\* of the win conditions of its match type.
C24_WinMethodLegal ==
    (activeMatch.exists /\ Truthy(activeMatch.winner))
        => activeMatch.winMethod \in Range(MATCH_TYPES[activeMatch.type].winConditions)

\* C21 (as claimed, in the form a finite run shows): when the runPPV of an
\* event has passed its completeEvent, that event is completed and is on the
\* completed list; a result that a run records goes into the results of the
\* run's own event; and the results of an event are those of entries of its
\* card, in card order, at most one per entry.
C21_RunCompletesOwnEvent ==
    [][/\ \A e \in DOMAIN runs' :
             runs'[e].pc \in {"saving", "done"} =>
                /\ events'[e].status = "completed"
                /\ \E i \in 1..Len(completedEvents') :
                      completedEvents'[i].id = events'[e].id
       /\ \A x \in 1..Len(events) :
             (events'[x].results # events[x].results /\ ret'.op = "recordMatchResult")
                => x = ret'.run
       /\ \A x \in 1..Len(events') :
             LET results == events'[x].results
             IN /\ \A i \in 1..Len(results) : results[i].order \in 1..Len(events'[x].matchCard)
                /\ \A i, j \in 1..Len(results) : i < j => results[i].order < results[j].order]_vars

\* ----------------------------------------------------- director properties
\* C4: no character is at once in the active list and in the wings list
C4_RosterDisjoint ==
    Range(storyline.activeCharacters) \cap Range(storyline.waitingInTheWings) = {}

\* C6: every feud's intensity lies between 0 and 10 (0 and 100 tenths)
C6_IntensityInRange ==
    \A i \in 1..Len(storyline.feuds) : storyline.feuds[i].intensity \in 0..IntensityCap

FeudPairsUnique ==
    \A i, j \in 1..Len(storyline.feuds) :
        i # j => Range(storyline.feuds[i].between) # Range(storyline.feuds[j].between)

\* a createFeud call for a pair that has a feud, in either order
CreateOnExistingPair(i) ==
    /\ steps' = steps + 1
    /\ ret'.op = "createFeud"
    /\ i \in 1..Len(storyline.feuds)
    /\ Range(storyline.feuds[i].between) = {ret'.char1, ret'.char2}

\* a decideResponders call in which r answers its feud partner, the author,
\* and feud i is the one between the two, in either order
FeudResponse(r, i) ==
    /\ steps' = steps + 1
    /\ ret'.op = "decideResponders"
    /\ \E k \in 1..Len(ret'.responders) :
          /\ ret'.responders[k].characterId = r
          /\ ret'.responders[k].reason = "feud-response"
    /\ i \in 1..Len(storyline.feuds)
    /\ Range(storyline.feuds[i].between) = {r, ret'.author}

\* C7: the feud list holds at most one feud per unordered pair: createFeud on
\* a pair that has a feud, in either order, sets that feud's intensity and
\* phase and adds no entry, and a feud response escalates the feud of the
\* pair whichever way round the pair is stored
C7_OneFeudPerPair ==
    /\ []FeudPairsUnique
    /\ [][\A i \in 1..Len(storyline.feuds) :
            CreateOnExistingPair(i) =>
                /\ Len(storyline'.feuds) = Len(storyline.feuds)
                /\ storyline'.feuds[i] = [storyline.feuds[i] EXCEPT
                                             !.intensity = ret'.intensity,
                                             !.phase = "building"]]_vars
    /\ [][\A r \in CHARACTERS, i \in 1..Len(storyline.feuds) :
            (FeudResponse(r, i) /\ storyline.feuds[i].intensity \in 1..(IntensityCap - 1)) =>
                storyline'.feuds[i].intensity =
                    Min(IntensityCap, storyline.feuds[i].intensity + 3)]_vars

\* C31 (as claimed): a feud response raises the intensity of the feud between
\* the responder and the author by exactly 0.3, capped at 10, whatever the
\* intensity between 0 and 10 was; a decideResponders call leaves every
\* other feud's intensity as it was and lowers none.
C31_FeudResponseEscalates ==
    [][(steps' = steps + 1 /\ ret'.op = "decideResponders") =>
          \A i \in 1..Len(storyline.feuds) :
              /\ storyline'.feuds[i].intensity >= storyline.feuds[i].intensity
              /\ IF \E r \in CHARACTERS : FeudResponse(r, i)
                 THEN storyline.feuds[i].intensity \in 0..IntensityCap =>
                          storyline'.feuds[i].intensity =
                              Min(IntensityCap, storyline.feuds[i].intensity + 3)
                 ELSE storyline'.feuds[i].intensity = storyline.feuds[i].intensity]_vars

\* C35 (as claimed): every responder entry of decideResponders that is not a
\* surprise names a character that was active and is not the author, no
\* character has two such entries in one call, and the entry is tagged
\* feud-response exactly when the author is one of the character's listed
\* rivals, general-response otherwise.
C35_RespondersAreActive ==
    [][(steps' = steps + 1 /\ ret'.op = "decideResponders") =>
          LET plain == {k \in 1..Len(ret'.responders) : ~ret'.responders[k].isSurprise}
          IN /\ \A k \in plain :
                    LET c == ret'.responders[k].characterId
                    IN /\ c \in Range(storyline.activeCharacters)
                       /\ c # ret'.author
                       /\ ret'.responders[k].reason =
                              IF ret'.author # Null /\ ret'.author \in getFeudPartners(c)
                              THEN "feud-response" ELSE "general-response"
             /\ \A k, l \in plain :
                    k # l => ret'.responders[k].characterId # ret'.responders[l].characterId]_vars

\* the entrance of c: c was in the wings of w and not active, has left the
\* wings and is the newest active character of s, whose count of beats
\* since the last surprise is 0; nobody else has moved
Entered(w, s, c) ==
    /\ c \in Range(w.waitingInTheWings)
    /\ c \notin Range(w.activeCharacters)
    /\ s.waitingInTheWings = SelectSeq(w.waitingInTheWings, LAMBDA d : d # c)
    /\ s.activeCharacters = Append(w.activeCharacters, c)
    /\ Range(s.activeCharacters) \cup Range(s.waitingInTheWings) =
          Range(w.activeCharacters) \cup Range(w.waitingInTheWings)
    /\ s.beatsSinceLastSurprise = 0

\* the rosters of s are those of w
SameRosters(w, s) ==
    /\ s.waitingInTheWings = w.waitingInTheWings
    /\ s.activeCharacters = w.activeCharacters

\* the director as triggerSurprise finds it in POST /surprise: as it was, or
\* with the character of the request added to the wings
AtTheCurtain ==
    {storyline} \cup {[storyline EXCEPT !.waitingInTheWings = Append(@, c)] :
                         c \in {d \in SurpriseInputs \ {Null} :
                                   /\ d \notin Range(storyline.activeCharacters)
                                   /\ d \notin Range(storyline.waitingInTheWings)}}

\* C36 (as claimed): when a surprise entrance fires, one character leaves
\* the wings and joins the active list, the count of beats since the last
\* surprise becomes 0, the responder is flagged isSurprise and nobody else
\* changes roster; when triggerSurprise has no entrant the rosters and the
\* count are as they were (in decideResponders: the count it had counted).
C36_SurpriseFrame ==
    [][/\ (steps' = steps + 1 /\ ret'.op = "decideResponders") =>
            LET flagged == {k \in 1..Len(ret'.responders) : ret'.responders[k].isSurprise}
            IN IF flagged # {}
               THEN /\ flagged = {Len(ret'.responders)}
                    /\ Entered(storyline, storyline', Last(ret'.responders).characterId)
               ELSE /\ SameRosters(storyline, storyline')
                    /\ storyline'.beatsSinceLastSurprise = storyline.beatsSinceLastSurprise + 1
       /\ (steps' = steps + 1 /\ ret'.op = "triggerSurprise") =>
            \E w \in AtTheCurtain :
                IF ret'.fired THEN Entered(w, storyline', ret'.characterId)
                ELSE /\ SameRosters(w, storyline')
                     /\ storyline'.beatsSinceLastSurprise = storyline.beatsSinceLastSurprise]_vars

\* C7 witness: createFeud has been called on a pair stored the other way
\* round and has updated that feud
C7_Witness ==
    /\ ret.op = "createFeud"
    /\ ret.existed
    /\ \E i \in 1..Len(storyline.feuds) :
          /\ storyline.feuds[i].between = <<ret.char2, ret.char1>>
          /\ storyline.feuds[i].intensity = ret.intensity
          /\ storyline.feuds[i].phase = "building"
    /\ FeudPairsUnique

Surprised(r) ==
    /\ r.op = "decideResponders"
    /\ \E i \in 1..Len(r.responders) : r.responders[i].isSurprise

Booked(r) == r.op = "autoBookCard" /\ ~r.error

ValidSize(participants, matchType) ==
    /\ Len(participants) >= MATCH_TYPES[matchType].participants[1]
    /\ Len(participants) <= MATCH_TYPES[matchType].participants[2]

ValidCallRunning ==
    /\ fullMatch.running
    /\ ValidSize(activeMatch.participants, activeMatch.type)

\* C2: simulateFullMatch on a list of a valid size of known characters, for
\* every match type, terminates, returns at most 21 round results and
\* finalizes a match whose winner is non-null and one of the participants.
\* Termination is the bounded count of rounds: each step of the running
\* call either returns or adds to a count of rounds that never passes 21
C2_FullMatchTerminates ==
    /\ [](ValidCallRunning => fullMatch.rounds <= SafetyValve + 1)
    /\ [][(ValidCallRunning /\ fullMatch' # fullMatch) =>
            \/ ~fullMatch'.running
            \/ fullMatch'.rounds > fullMatch.rounds]_vars
    /\ []((/\ ret.op = "simulateFullMatch"
           /\ ~ret.error
           /\ ~ret.pending
           /\ ValidSize(ret.participants, ret.matchType))
          => /\ ret.rounds <= SafetyValve + 1
             /\ Truthy(ret.match.winner)
             /\ ret.match.winner \in Range(ret.participants)
             /\ Len(matchHistory) > 0
             /\ Last(matchHistory).winner = ret.match.winner)

\* C2 witness: a fatal-four-way, a type whose legal lists repeat a known
\* character, has been simulated to its return
C2_Witness ==
    /\ ret.op = "simulateFullMatch"
    /\ ~ret.error
    /\ ~ret.pending
    /\ ret.matchType = "fatal-four-way"
    /\ ValidSize(ret.participants, ret.matchType)
    /\ ret.rounds = ret.match.totalRounds
    /\ ret.match.winner \in Range(ret.participants)

\* C3: after every simulateRound every participant's momentum is within
\* [-10, 10] and every participant's damage within [0, 100]
C3_MomentumDamageInRange ==
    activeMatch.exists =>
        \A c \in DOMAIN activeMatch.momentum :
            /\ activeMatch.momentum[c] \in (-MomentumCap)..MomentumCap
            /\ activeMatch.damage[c] \in 0..DamageCap

\* C3 witness: a reversal beat has just been resolved in a match in which a
\* participant stands at a cap
C3_Witness ==
    /\ ret.op = "simulateRound"
    /\ ~ret.round.isNull
    /\ IsReversal(ret.round.beat)
    /\ activeMatch.exists
    /\ \E c \in Range(activeMatch.participants) :
          \/ activeMatch.momentum[c] \in {-MomentumCap, MomentumCap}
          \/ activeMatch.damage[c] = DamageCap

\* a round of the live match has just been played
RoundPlayed ==
    /\ activeMatch.exists
    /\ ret'.op = "simulateRound"
    /\ ~ret'.round.isNull
    /\ ret'.round.round = activeMatch.currentRound + 1

\* the final scores of the round just played, in thousandths: the momentum
\* and the damage are those after the round's beat, the jitters the fifth
\* and sixth readings of the round
ActorFinal ==
    Get(activeMatch'.momentum, ret'.round.actor) * 1000
        + Get(activeMatch'.damage, ret'.round.target) + Random(rng, 5) * 5
TargetFinal ==
    Get(activeMatch'.momentum, ret'.round.target) * 1000
        + Get(activeMatch'.damage, ret'.round.actor) + Random(rng, 6) * 5

\* C32: in the round that resolves the outcome the winner is the round's
\* actor when the actor's final score (momentum + the target's damage / 10
\* + jitter) is at least the target's, and the round's target otherwise:
\* an exact tie goes to the actor.
C32_TieToActor ==
    [][(RoundPlayed /\ ret'.round.winner # Null) =>
          /\ ret'.round.winner \in {ret'.round.actor, ret'.round.target}
          /\ ret'.round.winner = IF ActorFinal >= TargetFinal THEN ret'.round.actor
                                 ELSE ret'.round.target]_vars

\* C32 witness: a match of two has just been decided for the actor with
\* the two final scores equal (the jitters are the two readings that follow
\* the round's four)
C32_Witness ==
    /\ ret.op = "simulateRound"
    /\ ~ret.round.isNull
    /\ activeMatch.exists
    /\ Len(activeMatch.participants) = 2
    /\ ret.round.actor # ret.round.target
    /\ ret.round.winner = ret.round.actor
    /\ activeMatch.momentum[ret.round.actor] * 1000
           + activeMatch.damage[ret.round.target] + rng[1] * 5
          = activeMatch.momentum[ret.round.target] * 1000
               + activeMatch.damage[ret.round.actor] + rng[2] * 5

\* C33 (as claimed): a reversal beat (counter, finisher-counter, comeback)
\* leaves the actor's momentum no higher and the target's no lower than
\* before the round, and the actor has taken half of the round's damage
\* (capped at 100); any other beat raises the actor's momentum by the swing
\* (capped at 10) and lowers the target's by 1 (floored at -10).
C33_ReversalInverts ==
    [][RoundPlayed =>
          LET actor == ret'.round.actor
              target == ret'.round.target
              swing == ret'.round.momentumSwing
          IN /\ swing \in 1..3
             /\ IF IsReversal(ret'.round.beat)
                THEN /\ activeMatch'.momentum[actor] <= Get(activeMatch.momentum, actor)
                     /\ activeMatch'.momentum[target] >= Get(activeMatch.momentum, target)
                     /\ activeMatch'.damage[actor] =
                            Min(10000, Get(activeMatch.damage, actor)
                                           + ret'.round.damageDealt \div 2)
                ELSE /\ activeMatch'.momentum[actor] =
                            Min(10, Get(activeMatch.momentum, actor) + swing)
                     /\ activeMatch'.momentum[target] =
                            Max(-10, Get(activeMatch.momentum, target) - 1)]_vars

\* C34 (as claimed): in every round of a match createMatch has accepted the
\* actor and the target are two different characters, both on the
\* participant list and neither on the eliminated list.
C34_TwoDistinctCombatants ==
    [][RoundPlayed =>
          /\ ret'.round.actor # ret'.round.target
          /\ {ret'.round.actor, ret'.round.target} \subseteq Range(activeMatch.participants)
          /\ {ret'.round.actor, ret'.round.target} \cap Range(activeMatch.eliminated) = {}]_vars

\* a list of at least two known characters, no two the same
DistinctKnown(participants) ==
    /\ Len(participants) >= 2
    /\ Range(participants) \subseteq CHARACTERS
    /\ \A i, j \in 1..Len(participants) : i # j => participants[i] # participants[j]

PhaseRank(phase) ==
    CASE phase = "early" -> 1 [] phase = "mid" -> 2 [] phase = "late" -> 3 [] OTHER -> 4

\* C37: a match of at least two distinct known participants plays exactly
\* totalRounds rounds, totalRounds lying in the range of the match type and
\* staying as drawn: the first round is an early one, the phases never go
\* back, the winner is set in the round numbered totalRounds, whose phase is
\* finish, and in none before, and the ceiling of 20 rounds is not reached.
C37_ExactlyTotalRounds ==
    /\ []((activeMatch.exists /\ DistinctKnown(activeMatch.participants)) =>
            LET rounds == activeMatch.events
            IN /\ activeMatch.totalRounds >= MATCH_TYPES[activeMatch.type].rounds.min
               /\ activeMatch.totalRounds <= MATCH_TYPES[activeMatch.type].rounds.max
               /\ activeMatch.currentRound <= activeMatch.totalRounds
               /\ activeMatch.totalRounds < 20
               /\ Len(rounds) = activeMatch.currentRound
               /\ \A i \in 1..Len(rounds) :
                      /\ rounds[i].round = i
                      /\ i = 1 => rounds[i].phase = "early"
                      /\ rounds[i].phase = "finish" <=> i = activeMatch.totalRounds
                      /\ \A j \in 1..(i - 1) :
                             PhaseRank(rounds[j].phase) <= PhaseRank(rounds[i].phase)
               /\ Truthy(activeMatch.winner) <=>
                      activeMatch.currentRound = activeMatch.totalRounds
               /\ fullMatch.running => /\ ~fullMatch.broke
                                        /\ fullMatch.rounds = activeMatch.currentRound)
    /\ [][(RoundPlayed /\ DistinctKnown(activeMatch.participants)) =>
            /\ activeMatch'.totalRounds = activeMatch.totalRounds
            /\ ret'.round.totalRounds = activeMatch.totalRounds
            /\ ret'.round.isFinish <=> ret'.round.round = activeMatch.totalRounds]_vars
    /\ []((/\ ret.op = "simulateFullMatch"
           /\ ~ret.error
           /\ ~ret.pending
           /\ DistinctKnown(ret.participants))
          => /\ ret.rounds = ret.match.totalRounds
             /\ Truthy(ret.match.winner))

\* C37 witness: a steel-cage match has been simulated to its return in as
\* many rounds as were drawn for it, the most the type allows
C37_Witness ==
    /\ ret.op = "simulateFullMatch"
    /\ ~ret.error
    /\ ~ret.pending
    /\ ret.matchType = "steel-cage"
    /\ DistinctKnown(ret.participants)
    /\ ret.rounds = ret.match.totalRounds
    /\ ret.rounds = MATCH_TYPES[ret.matchType].rounds.max
    /\ Last(ret.match.events).phase = "finish"
    /\ Truthy(ret.match.winner)

\* the id createMatch has to reject: the type when the catalog lacks it,
\* else the first participant the registry lacks
Rejected(participants, matchType) ==
    IF matchType \notin DOMAIN MATCH_TYPES THEN matchType
    ELSE IF \E i \in 1..Len(participants) : participants[i] \notin CHARACTERS
    THEN participants[CHOOSE i \in 1..Len(participants) :
                          /\ participants[i] \notin CHARACTERS
                          /\ \A j \in 1..(i - 1) : participants[j] \in CHARACTERS]
    ELSE Null

C9_TooFewRejected ==
    [][(/\ steps' = steps + 1
        /\ ret'.op = "createMatch"
        /\ ret'.matchType \in DOMAIN MATCH_TYPES
        /\ Len(ret'.participants) < MATCH_TYPES[ret'.matchType].participants[1])
       => /\ ret'.error
          /\ activeMatch' = activeMatch]_vars

\* C38: a result that runPPV records for a title match is flagged titleChange
\* exactly when the holder of that title after the match differs from the
\* holder before it; and when the holder stays the same the reign is not
\* closed into the history and the defense count is kept.
C38_TitleChangeIffNewHolder ==
    [][\A e \in DOMAIN runs :
          (runs[e].pc = "post" /\ runs'[e].pc = "card" /\ activeEvent # NoEvent) =>
             LET entry == events[e].matchCard[runs[e].i]
                 results == events'[activeEvent].results
                 flagged == results[Len(results)].titleChange
             IN IF entry.forTitle \in CHAMPIONSHIPS
                THEN LET before == titles[entry.forTitle]
                         after == titles'[entry.forTitle]
                     IN /\ flagged <=> after.holder # before.holder
                        /\ after.holder = before.holder =>
                              /\ after.history = before.history
                              /\ after.defenses = before.defenses
                ELSE ~flagged /\ titles' = titles]_vars

\* the event records of the scheduled list
ScheduledRecords(evs, sched) == [i \in 1..Len(sched) |-> evs[sched[i]]]

\* C39: when a new process starts (main) over a state file that the award
\* and schedule routes have saved, the title ledger, the match history and
\* the scheduled and completed events are after main what they were before
\* the restart.
C39_LedgerSurvivesRestart ==
    [][(steps' = steps + 1 /\ ret'.op = "main" /\ stateFile.exists) =>
          /\ \A id \in CHAMPIONSHIPS : titles'[id].holder = titles[id].holder
          /\ matchHistory' = matchHistory
          /\ ScheduledRecords(events', scheduledEvents')
                = ScheduledRecords(events, scheduledEvents)
          /\ completedEvents' = completedEvents]_vars

\* C40: every participant of every entry of a card that autoBookCard returns
\* is on the list of active characters it was given.
C40_OnlyActiveBooked ==
    Booked(ret) =>
        \A i \in 1..Len(ret.card) :
            Range(ret.card[i].participants) \subseteq Range(storyline.activeCharacters)

====
